---------------------------- MODULE Spec2Model ----------------------------
(***************************************************************************)
(* A model of create-starpack (src/src/create-starpack.cpp): the build     *)
(* pipeline createPackage with its resume marker, the source resolver      *)
(* fetchSources, hook routing and the per-package metadata.                *)
(*                                                                         *)
(* Strings on which the code does string operations (source descriptors,   *)
(* file names, package names) are sequences of one-character strings.      *)
(* Script bodies and dependency names are opaque and are TLA+ strings.     *)
(***************************************************************************)
EXTENDS Integers, Sequences, FiniteSets, TLC

\* bounds of the model
MaxRuns == 2        \* runs of createPackage in one behaviour
MaxPackages == 2    \* declared packages
MaxSources == 2     \* source descriptors in one recipe
MaxHookFiles == 3   \* files in the recipe directory for the hook loop
MaxLines == 3       \* lines of a recipe text given to the parser
MaxLinks == 2       \* symlink pairs of one recipe

(***************************************************************************)
(* std::string operations used by the code.  Positions are 1-based; 0      *)
(* stands for std::string::npos.                                           *)
(***************************************************************************)

\* s.substr(from-1, n) with 1-based from
SubStr(s, from, n) == SubSeq(s, from, from + n - 1)

\* s.substr(from-1): the tail starting at 1-based position from
Tail_(s, from) == SubSeq(s, from, Len(s))

\* p occurs in s at 1-based position i
OccursAt(s, p, i) ==
    /\ i >= 1
    /\ i + Len(p) - 1 <= Len(s)
    /\ \A k \in 1..Len(p) : s[i + k - 1] = p[k]

\* s.find(p): first position of p in s, 0 when absent
Find(s, p) ==
    LET hits == { i \in 1..Len(s) : OccursAt(s, p, i) }
    IN  IF hits = {} THEN 0 ELSE CHOOSE i \in hits : \A j \in hits : i <= j

\* s.find(p, from-1): first position >= from
FindFrom(s, p, from) ==
    LET hits == { i \in from..Len(s) : OccursAt(s, p, i) }
    IN  IF hits = {} THEN 0 ELSE CHOOSE i \in hits : \A j \in hits : i <= j

\* s.rfind(p, 0) == 0
StartsWith(s, p) == OccursAt(s, p, 1)

\* s ends with p and is at least as long
EndsWith(s, p) == Len(s) >= Len(p) /\ OccursAt(s, p, Len(s) - Len(p) + 1)

\* s.find_first_of(chars)
FindFirstOf(s, chars) ==
    LET hits == { i \in 1..Len(s) : s[i] \in chars }
    IN  IF hits = {} THEN 0 ELSE CHOOSE i \in hits : \A j \in hits : i <= j

\* s.find_last_of(c)
FindLastOf(s, c) ==
    LET hits == { i \in 1..Len(s) : s[i] = c }
    IN  IF hits = {} THEN 0 ELSE CHOOSE i \in hits : \A j \in hits : i >= j

\* the literal strings of the code, as character sequences
GitPlus == <<"g", "i", "t", "+">>
DotGit == <<".", "g", "i", "t">>
DoubleColon == <<":", ":">>
SchemeSep == <<":", "/", "/">>
NoExtractMarker == <<"N", "O", "E", "X", "T", "R", "A", "C", "T">>
SourceTar == <<"s", "o", "u", "r", "c", "e", ".", "t", "a", "r">>
DotHook == <<".", "h", "o", "o", "k">>


\* the archive suffixes, in the order of the code's list
ArchiveExts ==
    << <<".", "t", "a", "r", ".", "x", "z">>,
       <<".", "t", "a", "r", ".", "g", "z">>,
       <<".", "t", "g", "z">>,
       <<".", "t", "a", "r", ".", "b", "z", "2">>,
       <<".", "t", "b", "z", "2">>,
       <<".", "z", "i", "p">> >>

VARIABLES
    recipe,             \* the RecipeModel parse_starbuild yields for the STARBUILD file
    clean,              \* the --clean flag
    noStripping,        \* the global flag set by --nostrip
    cwdIsSb,            \* the process runs with the recipe directory as working directory
    resumeOnDisk,       \* content of <recipe dir>/.starpack_resume, or NoFile
    fsys,               \* files and directories: <<dir, name>> -> kind
    staged,             \* packages/<name>/files per package name
    archives,           \* <name>-<version>.starpack per package name: its metadata
    pc,                 \* position of the running createPackage, "idle" between runs
    skipping,           \* createPackage's local
    currentState,       \* the static ResumeState
    srcIdx,             \* fetchSources' loop position
    intermediatePaths,  \* fetchSources' out-parameter
    pkgIdx,             \* the package loop's i (1-based)
    hookTodo,           \* directory entries the hook loop has not visited yet
    trace,              \* history: the steps of the current run, in order
    netOps,             \* history: <<source position, clone or download>> of the current run
    unpacked,           \* history: <<source position, file>> the current run unpacked
    loaded,             \* history: what loadResumeState found when the run started
    executed,           \* history: <<package position, body>> the current run gave an assemble step
    result,             \* history: how the last run ended
    runNo,              \* history: number of runs started
    prev,               \* history: result and artifact list of the previous fetchSources call
    file,               \* the recipe text parse_starbuild reads, a sequence of lines
    ps                  \* parse_starbuild's locals and output parameters

vars == << recipe, clean, noStripping, cwdIsSb, resumeOnDisk, fsys, staged, archives, pc, skipping,
           currentState, srcIdx, intermediatePaths, pkgIdx, hookTodo, trace, netOps,
           unpacked, loaded, executed, result, runNo, prev, file, ps >>

\* what the parser reads and writes
parseVars == <<file, ps>>

NoFile == [phase |-> "<absent>", pkgIndex |-> 0]

\* the working directory of the process
Cwd == IF cwdIsSb THEN "sb" ELSE "cwd"

(***************************************************************************)
(* The file system: std::filesystem::exists, is_empty, and libmagic's      *)
(* content sniffing.  Kinds: "plain" and "archive" are regular files       *)
(* (archive: libmagic reports an archive MIME type), "dir" a non-empty     *)
(* directory, "emptydir" an empty one.                                     *)
(***************************************************************************)
Exists(f, d, n) == <<d, n>> \in DOMAIN f

IsEmptyEntry(f, d, n) == f[<<d, n>>] = "emptydir"

IsRegular(f, d, n) == Exists(f, d, n) /\ f[<<d, n>>] \in {"plain", "archive"}

isArchiveFile(f, n) == Exists(f, Cwd, n) /\ f[<<Cwd, n>>] = "archive"

\* f with entry <<d, n>> created or replaced
WithEntry(f, d, n, kind) ==
    [p \in DOMAIN f \cup {<<d, n>>} |-> IF p = <<d, n>> THEN kind ELSE f[p]]

\* f without the entries of names
WithoutEntries(f, gone) == [p \in DOMAIN f \ gone |-> f[p]]

(***************************************************************************)
(* fetchSources: classification of one descriptor and the names derived    *)
(* from it.                                                                *)
(***************************************************************************)

\* "git+" stripped, truncated at the first '#' or '?'
GitUrl(src) ==
    LET gitUrl == Tail_(src, 5)
        frag == FindFirstOf(gitUrl, {"#", "?"})
    IN  IF frag # 0 THEN SubStr(gitUrl, 1, frag - 1) ELSE gitUrl

\* the clone directory: final path segment, a trailing ".git" removed
RepoName(src) ==
    LET gitUrl == GitUrl(src)
        pos == FindLastOf(gitUrl, "/")
        repoName == IF pos # 0 THEN Tail_(gitUrl, pos + 1) ELSE gitUrl
    IN  IF Len(repoName) >= 4 /\ EndsWith(repoName, DotGit)
        THEN SubStr(repoName, 1, Len(repoName) - 4)
        ELSE repoName

\* the left side of the first "::" (empty when there is none)
CustomFilename(src) ==
    LET doubleColonPos == Find(src, DoubleColon)
    IN  IF doubleColonPos # 0 THEN SubStr(src, 1, doubleColonPos - 1) ELSE <<>>

\* the right side of the first "::" (empty when there is none)
ActualUrl(src) ==
    LET doubleColonPos == Find(src, DoubleColon)
    IN  IF doubleColonPos # 0 THEN Tail_(src, doubleColonPos + 2) ELSE <<>>

\* the guard of the custom-name branch
IsCustom(src) == CustomFilename(src) # <<>> /\ ActualUrl(src) # <<>>

\* a string names a remote URL
IsRemote(s) == Find(s, SchemeSep) # 0

\* the download target of a bare URL: final path segment, "source.tar" when empty
UrlFilename(src) ==
    LET pos == FindLastOf(src, "/")
        filename == IF pos # 0 THEN Tail_(src, pos + 1) ELSE src
    IN  IF filename = <<>> THEN SourceTar ELSE filename

\* srcPath.filename() of starbuildDir / src
LocalFilename(src) ==
    LET pos == FindLastOf(src, "/")
    IN  IF pos # 0 THEN Tail_(src, pos + 1) ELSE src

\* mutant: the NOEXTRACT override is never applied
NoExtractOverride_Never(archivePath) == FALSE

\* extractArchive's NOEXTRACT override, on the local path it is given
NoExtractOverride(archivePath) == Find(archivePath, NoExtractMarker) # 0

\* extractArchive's expected output directory: the first matching suffix removed
RECURSIVE StripExt(_, _)
StripExt(filename, k) ==
    IF k > Len(ArchiveExts) THEN filename
    ELSE IF Len(filename) > Len(ArchiveExts[k]) /\ EndsWith(filename, ArchiveExts[k])
         THEN SubStr(filename, 1, Len(filename) - Len(ArchiveExts[k]))
         ELSE StripExt(filename, k + 1)

ExtractBase(archivePath) == StripExt(LocalFilename(archivePath), 1)

\* extractArchive's "already extracted" test
AlreadyExtracted(f, archivePath) ==
    /\ Exists(f, Cwd, ExtractBase(archivePath))
    /\ f[<<Cwd, ExtractBase(archivePath)>>] = "dir"

(***************************************************************************)
(* The outcomes of resolving one source on file system f: records          *)
(*   ok        what the branch returns or lets the loop continue with      *)
(*   fs        the file system afterwards                                  *)
(*   pushed    what was appended to intermediatePaths                      *)
(*   net       the clone/download operations performed                     *)
(*   unpacked  the files handed to libarchive                              *)
(* The results of git_clone, curl and libarchive, and the content a server *)
(* sends, are the environment's choice.  A failed download removes its     *)
(* partial file; a failed clone or unpack is taken to leave nothing.       *)
(***************************************************************************)
Outcome(ok, f, pushed, net, unp) ==
    [ok |-> ok, fs |-> f, pushed |-> pushed, net |-> net, unpacked |-> unp]

\* what unpacking leaves: the archive's top directory, when it has one of that name
UnpackResults(f, archivePath) ==
    LET base == ExtractBase(archivePath)
    IN  {f} \cup
        (IF base # archivePath /\ (~Exists(f, Cwd, base) \/ IsEmptyEntry(f, Cwd, base))
         THEN {WithEntry(f, Cwd, base, "dir")}
         ELSE {})

\* the sniff at the call site followed by extractArchive
ExtractOutcomes(f, name, net) ==
    IF ~isArchiveFile(f, name)
    THEN {Outcome(TRUE, f, <<name>>, net, <<>>)}
    ELSE IF NoExtractOverride(name)
    THEN {Outcome(TRUE, f, <<name>>, net, <<>>)}
    ELSE IF AlreadyExtracted(f, name)
    THEN {Outcome(TRUE, f, <<name>>, net, <<>>)}
    ELSE {Outcome(FALSE, f, <<name>>, net, <<name>>)} \cup
         {Outcome(TRUE, g, <<name>>, net, <<name>>) : g \in UnpackResults(f, name)}

\* downloadFile(url, dest) when dest does not exist, then the push and the sniff
DownloadOutcomes(f, url, dest) ==
    {Outcome(FALSE, f, <<>>, <<<<"download", url>>>>, <<>>)} \cup
    UNION { ExtractOutcomes(WithEntry(f, Cwd, dest, kind), dest, <<<<"download", url>>>>)
            : kind \in {"plain", "archive"} }

\* branch 1: "git+" sources
GitOutcomes(f, src) ==
    LET repoName == RepoName(src)
    IN  IF Exists(f, Cwd, repoName) /\ ~IsEmptyEntry(f, Cwd, repoName)
        THEN {Outcome(TRUE, f, <<repoName>>, <<>>, <<>>)}
        ELSE {Outcome(FALSE, f, <<>>, <<<<"clone", GitUrl(src)>>>>, <<>>),
              Outcome(TRUE, WithEntry(f, Cwd, repoName, "dir"), <<repoName>>,
                      <<<<"clone", GitUrl(src)>>>>, <<>>)}

\* mutant: the value after "::" is not checked for "://"
CustomOutcomes_NoUrlCheck(f, src) ==
    IF ~Exists(f, Cwd, CustomFilename(src))
    THEN DownloadOutcomes(f, ActualUrl(src), CustomFilename(src))
    ELSE ExtractOutcomes(f, CustomFilename(src), <<>>)

\* branch 2: "name::url" sources
CustomOutcomes(f, src) ==
    LET customFilename == CustomFilename(src)
        actualUrl == ActualUrl(src)
    IN  IF ~IsRemote(actualUrl)
        THEN {Outcome(FALSE, f, <<>>, <<>>, <<>>)}
        ELSE IF ~Exists(f, Cwd, customFilename)
        THEN DownloadOutcomes(f, actualUrl, customFilename)
        ELSE ExtractOutcomes(f, customFilename, <<>>)

\* mutant: a bare URL is downloaded whether or not its target exists
UrlOutcomes_AlwaysDownloads(f, src) == DownloadOutcomes(f, src, UrlFilename(src))

\* branch 3, remote: bare URLs
UrlOutcomes(f, src) ==
    LET filename == UrlFilename(src)
    IN  IF ~Exists(f, Cwd, filename)
        THEN DownloadOutcomes(f, src, filename)
        ELSE ExtractOutcomes(f, filename, <<>>)

\* branch 3, local: paths relative to the recipe directory
LocalOutcomes(f, src) ==
    LET filename == LocalFilename(src)
    IN  IF ~Exists(f, "sb", src)
        THEN {Outcome(FALSE, f, <<>>, <<>>, <<>>)}
        ELSE IF ~Exists(f, Cwd, filename)
        THEN IF IsRegular(f, "sb", src)
             THEN ExtractOutcomes(WithEntry(f, Cwd, filename, f[<<"sb", src>>]),
                                  filename, <<>>)
             ELSE {Outcome(FALSE, f, <<>>, <<>>, <<>>)}
        ELSE ExtractOutcomes(f, filename, <<>>)

\* the classification, in the order of the code
FetchOutcomes(f, src) ==
    IF StartsWith(src, GitPlus) THEN GitOutcomes(f, src)
    ELSE IF IsCustom(src) THEN CustomOutcomes(f, src)
    ELSE IF IsRemote(src) THEN UrlOutcomes(f, src)
    ELSE LocalOutcomes(f, src)

(***************************************************************************)
(* Hook routing: the regular expression built from the package name.       *)
(* The name is pasted into the pattern unescaped, so '.' in a name is the  *)
(* any-character atom and '+' repeats the atom before it; all other        *)
(* characters of the names used here are literals.  The match is           *)
(* case-insensitive (std::regex_constants::icase).  Names with two         *)
(* quantifiers in a row, or starting with one, are not used.               *)
(***************************************************************************)
UpperCase == <<"A", "B", "C", "D", "E", "F", "G", "H", "I", "J", "K", "L", "M",
               "N", "O", "P", "Q", "R", "S", "T", "U", "V", "W", "X", "Y", "Z">>
LowerCase == <<"a", "b", "c", "d", "e", "f", "g", "h", "i", "j", "k", "l", "m",
               "n", "o", "p", "q", "r", "s", "t", "u", "v", "w", "x", "y", "z">>

\* std::tolower on one character
ToLower(c) ==
    IF \E k \in 1..26 : UpperCase[k] = c
    THEN LowerCase[CHOOSE k \in 1..26 : UpperCase[k] = c]
    ELSE c

\* std::isdigit
IsDigit(c) == c \in {"0", "1", "2", "3", "4", "5", "6", "7", "8", "9"}

\* one pattern atom against one character
AtomMatches(p, c) == p = "." \/ ToLower(p) = ToLower(c)

\* The numbers of characters of str that pat[k..] can consume, starting from any
\* of the consumed counts in S.
RECURSIVE MatchEnds(_, _, _, _)
MatchEnds(pat, k, str, S) ==
    IF k > Len(pat) THEN S
    ELSE IF k < Len(pat) /\ pat[k + 1] = "+"
    THEN MatchEnds(pat, k + 2, str,
             { e \in 1..Len(str) :
                   \E j \in S : j < e /\ \A m \in (j + 1)..e : AtomMatches(pat[k], str[m]) })
    ELSE MatchEnds(pat, k + 1, str,
             { j + 1 : j \in { x \in S : x + 1 <= Len(str) /\ AtomMatches(pat[k], str[x + 1]) } })

\* s matches ".+\.hook" as a whole
IsHookName(s) ==
    /\ Len(s) >= Len(DotHook) + 1
    /\ \A k \in 1..Len(DotHook) :
           ToLower(s[Len(s) - Len(DotHook) + k]) = DotHook[k]

\* the lengths of the prefixes of filename that "<pkgName>-" matches with a hook
\* name left over
PrefixEnds(pkgName, filename) ==
    { e \in MatchEnds(pkgName \o <<"-">>, 1, filename, {0}) :
          IsHookName(Tail_(filename, e + 1)) }

\* the greedy match: the longest prefix
PrefixEnd(pkgName, filename) ==
    CHOOSE e \in PrefixEnds(pkgName, filename) :
        \A x \in PrefixEnds(pkgName, filename) : x <= e

\* std::regex_match(filename, match, hookPattern)
HookMatches(pkgName, singlePackageBuild, filename) ==
    \/ PrefixEnds(pkgName, filename) # {}
    \/ singlePackageBuild /\ IsHookName(filename)

\* the capture group holding "phase.hook"
HookPhase(pkgName, singlePackageBuild, filename) ==
    IF PrefixEnds(pkgName, filename) # {}
    THEN Tail_(filename, PrefixEnd(pkgName, filename) + 1)
    ELSE filename

\* where a matching file is copied: <<directory, name>> inside the staged tree
HookDest(pkgName, singlePackageBuild, filename) ==
    IF filename # <<>> /\ IsDigit(filename[1])
    THEN <<"universal-hooks", filename>>
    ELSE <<"hooks", HookPhase(pkgName, singlePackageBuild, filename)>>

(***************************************************************************)
(* parse_starbuild.  The text is a sequence of lines and a line a sequence *)
(* of atoms: a word is one atom (a word with the prefix "dependencies_" or *)
(* "assemble_" is the prefix followed by the rest), and every blank and    *)
(* every punctuation character is an atom of its own.  A quoted string's   *)
(* value, a body line and a captured block are kept as atom sequences.     *)
(***************************************************************************)
Blank == " "
Quote == "\""

\* std::isspace on an atom
IsSpace(c) == c = Blank

\* trim(s)
Trim(s) ==
    LET solid == { i \in 1..Len(s) : ~IsSpace(s[i]) }
    IN  IF solid = {} THEN <<>>
        ELSE SubSeq(s, CHOOSE i \in solid : \A j \in solid : i <= j,
                       CHOOSE i \in solid : \A j \in solid : i >= j)

\* the first position at or after from that holds no blank (Len(s) + 1 when none)
SkipSpace(s, from) ==
    LET solid == { i \in from..Len(s) : ~IsSpace(s[i]) }
    IN  IF solid = {} THEN Len(s) + 1 ELSE CHOOSE i \in solid : \A j \in solid : i <= j

\* extract_quoted_strings: the matches of "([^"]*)" from position from on
RECURSIVE QuotedFrom(_, _)
QuotedFrom(input, from) ==
    LET open == FindFrom(input, <<Quote>>, from)
        close == IF open = 0 THEN 0 ELSE FindFrom(input, <<Quote>>, open + 1)
    IN  IF close = 0 THEN <<>>
        ELSE <<SubSeq(input, open + 1, close - 1)>> \o QuotedFrom(input, close + 1)

extract_quoted_strings(input) == QuotedFrom(input, 1)

\* the position after "key\s*=\s*" at the start of t, 0 when t does not start so
AfterAssign(t, key) ==
    LET eq == SkipSpace(t, 2)
    IN  IF Len(t) >= 1 /\ t[1] = key /\ eq <= Len(t) /\ t[eq] = "="
        THEN SkipSpace(t, eq + 1)
        ELSE 0

NoMatch == [hit |-> FALSE, group |-> <<>>]

\* "^key\s*=\s*\((.*)\)" searched in t; whole makes it a regex_match
MatchArray(t, key, whole) ==
    LET open == AfterAssign(t, key)
        close == FindLastOf(t, ")")
    IN  IF open # 0 /\ open <= Len(t) /\ t[open] = "(" /\ close > open
           /\ (whole => close = Len(t))
        THEN [hit |-> TRUE, group |-> SubSeq(t, open + 1, close - 1)]
        ELSE NoMatch

\* regex_match of t against key\s*=\s*"(.*)"
MatchScalar(t, key) ==
    LET open == AfterAssign(t, key)
    IN  IF open # 0 /\ open < Len(t) /\ t[open] = Quote /\ t[Len(t)] = Quote
        THEN [hit |-> TRUE, group |-> SubSeq(t, open + 1, Len(t) - 1)]
        ELSE NoMatch

\* the words an identifier is made of
IsWord(c) == c \notin {Blank, Quote, "=", "(", ")", "{", "}", ":", "#"}

\* the length of the identifier t starts with
WordRun(t) ==
    LET stops == { i \in 1..Len(t) : ~IsWord(t[i]) }
    IN  IF stops = {} THEN Len(t) ELSE (CHOOSE i \in stops : \A j \in stops : i <= j) - 1

\* regex_match of t against re_any_func, "^([_A-Za-z]\w*)\s*\(\)\s*\{": the
\* identifier matched, <<>> when t does not match
AnyFuncName(t) ==
    LET n == WordRun(t)
        open == SkipSpace(t, n + 1)
        brace == SkipSpace(t, open + 2)
    IN  IF n >= 1 /\ open + 1 <= Len(t) /\ t[open] = "(" /\ t[open + 1] = ")"
           /\ brace = Len(t) /\ t[brace] = "{"
        THEN SubSeq(t, 1, n)
        ELSE <<>>

builtinFuncs == {<<"prepare">>, <<"compile">>, <<"verify">>, <<"assemble">>}

\* mutant: every function header opens the capture of a helper function
OpensCustom_AnyName(t) == AnyFuncName(t) # <<>>

\* the line opens the capture of a helper function
OpensCustom(t) ==
    /\ AnyFuncName(t) # <<>>
    /\ AnyFuncName(t) \notin builtinFuncs
    /\ AnyFuncName(t)[1] # "assemble_"

\* a possibly multi-line array: arr grows by the following lines of f, read raw,
\* until it holds ")" or the input ends; the result is cut at the first ")"
RECURSIVE ReadArray(_, _, _)
ReadArray(f, arr, next) ==
    IF Find(arr, <<")">>) = 0 /\ next <= Len(f)
    THEN ReadArray(f, arr \o <<Blank>> \o Trim(f[next]), next + 1)
    ELSE [words |-> extract_quoted_strings(
                        IF Find(arr, <<")">>) # 0
                        THEN SubSeq(arr, 1, Find(arr, <<")">>) - 1)
                        ELSE arr),
          next |-> next]

\* the array starting after the first "(" of t, which is line pos of f
ArrayAt(f, t, pos) == ReadArray(f, Tail_(t, Find(t, <<"(">>) + 1), pos + 1)

\* the parse of a "symlink:" line: the pairs it appends
SymlinkPairsOf_KeepsEmptySides(t) ==
    LET raw == Trim(Tail_(t, 3))
        pairStr == IF raw # <<>> /\ raw[1] = Quote /\ raw[Len(raw)] = Quote
                   THEN SubSeq(raw, 2, Len(raw) - 1)
                   ELSE raw
        colonPos == Find(pairStr, <<":">>)
    IN  IF colonPos # 0
        THEN << <<Trim(SubSeq(pairStr, 1, colonPos - 1)), Trim(Tail_(pairStr, colonPos + 1))>> >>
        ELSE <<>>

SymlinkPairsOf(t) ==
    LET raw == Trim(Tail_(t, 3))
        pairStr == IF raw # <<>> /\ raw[1] = Quote /\ raw[Len(raw)] = Quote
                   THEN SubSeq(raw, 2, Len(raw) - 1)
                   ELSE raw
        colonPos == Find(pairStr, <<":">>)
        link == Trim(SubSeq(pairStr, 1, colonPos - 1))
        target == Trim(Tail_(pairStr, colonPos + 1))
    IN  IF colonPos # 0 /\ link # <<>> /\ target # <<>>
        THEN << <<link, target>> >>
        ELSE <<>>

\* the locals and outputs of parse_starbuild before the first line is read
NotParsing ==
    [pos |-> 1, opened |-> FALSE, done |-> FALSE, ok |-> FALSE,
     in_prepare |-> FALSE, in_compile |-> FALSE, in_verify |-> FALSE,
     in_generic_assemble |-> FALSE, in_specific_assemble |-> FALSE, in_custom |-> FALSE,
     current_assemble_key |-> <<>>,
     prepare_stream |-> <<>>, compile_stream |-> <<>>, verify_stream |-> <<>>,
     generic_assemble_stream |-> <<>>, specific_assemble_stream |-> <<>>,
     custom_stream |-> <<>>,
     package_names |-> <<>>, package_descriptions |-> <<>>,
     subpackageDependencies |-> <<>>, package_version |-> <<>>, description |-> <<>>,
     dependencies |-> <<>>, build_dependencies |-> <<>>, clashes |-> <<>>, gives |-> <<>>,
     optional_dependencies |-> <<>>, sources |-> <<>>,
     prepare_function |-> <<>>, compile_function |-> <<>>, verify_function |-> <<>>,
     generic_assemble_function |-> <<>>, assemble_functions |-> <<>>,
     symlinkPairs |-> <<>>, customFunctions |-> <<>>]

\* fn with key mapped to val
Put(fn, key, val) == [k \in DOMAIN fn \cup {key} |-> IF k = key THEN val ELSE fn[k]]

\* key of function fn extended by words (std::unordered_map::operator[] and insert)
Extended(fn, key, words) ==
    Put(fn, key, (IF key \in DOMAIN fn THEN fn[key] ELSE <<>>) \o words)

\* the first open phase block takes the line, or is closed by it
Accumulate(st, line) ==
    IF st.in_prepare THEN [st EXCEPT !.prepare_stream = Append(@, line)]
    ELSE IF st.in_compile THEN [st EXCEPT !.compile_stream = Append(@, line)]
    ELSE IF st.in_verify THEN [st EXCEPT !.verify_stream = Append(@, line)]
    ELSE IF st.in_generic_assemble THEN [st EXCEPT !.generic_assemble_stream = Append(@, line)]
    ELSE IF st.in_specific_assemble THEN [st EXCEPT !.specific_assemble_stream = Append(@, line)]
    ELSE st

\* mutant: a closing brace ends every open phase block
CloseBlock_ClosesAll(st) ==
    [st EXCEPT !.in_prepare = FALSE, !.in_compile = FALSE, !.in_verify = FALSE,
               !.in_generic_assemble = FALSE, !.in_specific_assemble = FALSE,
               !.generic_assemble_function =
                   IF st.in_generic_assemble /\ ~(st.in_prepare \/ st.in_compile \/ st.in_verify)
                   THEN st.generic_assemble_stream ELSE @]

\* a closing brace ends the first open phase block
CloseBlock(st) ==
    IF st.in_prepare THEN [st EXCEPT !.in_prepare = FALSE]
    ELSE IF st.in_compile THEN [st EXCEPT !.in_compile = FALSE]
    ELSE IF st.in_verify THEN [st EXCEPT !.in_verify = FALSE]
    ELSE IF st.in_generic_assemble
    THEN [st EXCEPT !.in_generic_assemble = FALSE,
                    !.generic_assemble_function = st.generic_assemble_stream]
    ELSE [st EXCEPT !.in_specific_assemble = FALSE,
                    !.assemble_functions =
                        Put(@, st.current_assemble_key, st.specific_assemble_stream)]

InBlock(st) ==
    \/ st.in_prepare \/ st.in_compile \/ st.in_verify
    \/ st.in_generic_assemble \/ st.in_specific_assemble

\* a block header: the name with "()" at the start of t and "{" somewhere in it
OpensBlock(t, name) == StartsWith(t, <<name, "(", ")">>) /\ Find(t, <<"{">>) # 0

\* std::string's operator=: the value held after value is assigned over old
Assign_KeepsFirst(old, value) == IF old = <<>> THEN value ELSE old

Assign(old, value) == value

\* one iteration of the while (std::getline(file, line)) loop, on line st.pos of f
ParseLine(st, f) ==
    LET line == f[st.pos]
        trimmed == Trim(line)
        next == [st EXCEPT !.pos = @ + 1]
        names == MatchArray(trimmed, "package_name", TRUE)
        name == MatchScalar(trimmed, "package_name")
        version == MatchScalar(trimmed, "package_version")
        descr == MatchScalar(trimmed, "description")
        deps == MatchArray(trimmed, "dependencies", FALSE)
        bdeps == MatchArray(trimmed, "build_dependencies", FALSE)
        clash == MatchArray(trimmed, "clashes", FALSE)
        give == MatchArray(trimmed, "gives", FALSE)
        opt == MatchArray(trimmed, "optional_dependencies", FALSE)
        arr == ArrayAt(f, trimmed, st.pos)
        eqPos == Find(trimmed, <<"=">>)
        subpkgName == Tail_(Trim(SubSeq(trimmed, 1, eqPos - 1)), 2)
        keyEnd == FindFrom(trimmed, <<"(", ")">>, 2)
    IN  IF trimmed = <<>> \/ trimmed[1] = "#" THEN next
        ELSE IF ~st.in_custom /\ OpensCustom(trimmed)
        THEN [next EXCEPT !.in_custom = TRUE, !.custom_stream = <<line>>]
        ELSE IF st.in_custom
        THEN IF trimmed = <<"}">>
             THEN [next EXCEPT !.custom_stream = Append(@, line),
                               !.in_custom = FALSE,
                               !.customFunctions = Append(@, Append(st.custom_stream, line))]
             ELSE [next EXCEPT !.custom_stream = Append(@, line)]
        ELSE IF names.hit
        THEN [next EXCEPT !.package_names = @ \o extract_quoted_strings(names.group)]
        ELSE IF name.hit
        THEN [next EXCEPT !.package_names = Append(@, name.group)]
        ELSE IF trimmed[1] = "package_descriptions" /\ Find(trimmed, <<"(">>) # 0
        THEN [st EXCEPT !.pos = arr.next, !.package_descriptions = @ \o arr.words]
        ELSE IF trimmed[1] = "dependencies_"
        THEN IF eqPos # 0 /\ Find(trimmed, <<"(">>) # 0
             THEN [st EXCEPT !.pos = arr.next,
                             !.subpackageDependencies = Extended(@, subpkgName, arr.words)]
             ELSE next
        ELSE IF version.hit THEN [next EXCEPT !.package_version = Assign(@, version.group)]
        ELSE IF descr.hit THEN [next EXCEPT !.description = Assign(@, descr.group)]
        ELSE IF deps.hit
        THEN [next EXCEPT !.dependencies = @ \o extract_quoted_strings(deps.group)]
        ELSE IF bdeps.hit
        THEN [next EXCEPT !.build_dependencies = @ \o extract_quoted_strings(bdeps.group)]
        ELSE IF clash.hit
        THEN [next EXCEPT !.clashes = @ \o extract_quoted_strings(clash.group)]
        ELSE IF give.hit
        THEN [next EXCEPT !.gives = @ \o extract_quoted_strings(give.group)]
        ELSE IF opt.hit
        THEN [next EXCEPT !.optional_dependencies = @ \o extract_quoted_strings(opt.group)]
        ELSE IF StartsWith(trimmed, <<"sources", "=">>)
        THEN IF Find(trimmed, <<"(">>) # 0
             THEN [st EXCEPT !.pos = arr.next, !.sources = @ \o arr.words]
             ELSE next
        ELSE IF StartsWith(trimmed, <<"symlink", ":">>)
        THEN [next EXCEPT !.symlinkPairs = @ \o SymlinkPairsOf(trimmed)]
        ELSE IF OpensBlock(trimmed, "prepare") THEN [next EXCEPT !.in_prepare = TRUE]
        ELSE IF OpensBlock(trimmed, "compile") THEN [next EXCEPT !.in_compile = TRUE]
        ELSE IF OpensBlock(trimmed, "verify") THEN [next EXCEPT !.in_verify = TRUE]
        ELSE IF OpensBlock(trimmed, "assemble")
        THEN [next EXCEPT !.in_generic_assemble = TRUE]
        ELSE IF trimmed[1] = "assemble_" /\ keyEnd # 0 /\ Find(trimmed, <<"{">>) # 0
        THEN [next EXCEPT !.current_assemble_key = SubSeq(trimmed, 2, keyEnd - 1),
                          !.in_specific_assemble = TRUE,
                          !.specific_assemble_stream = <<>>]
        ELSE IF trimmed = <<"}">> /\ InBlock(st) THEN CloseBlock(next)
        ELSE Accumulate(next, line)

\* mutant: an assemble() body still open at the end of the input is stored as well
ParseEnd_StoresOpenAssemble(st) ==
    [st EXCEPT !.done = TRUE, !.ok = TRUE,
               !.prepare_function = st.prepare_stream,
               !.compile_function = st.compile_stream,
               !.verify_function = st.verify_stream,
               !.generic_assemble_function =
                   IF st.in_generic_assemble THEN st.generic_assemble_stream ELSE @]

\* after the loop: the bodies of the global phases are stored, success is reported
ParseEnd(st) ==
    [st EXCEPT !.done = TRUE, !.ok = TRUE,
               !.prepare_function = st.prepare_stream,
               !.compile_function = st.compile_stream,
               !.verify_function = st.verify_stream]

(***************************************************************************)
(* createPackage: helpers.                                                 *)
(***************************************************************************)
GlobalPhases == {"prepare", "compile", "verify"}

\* the script body of a global phase
PhaseScript(P) ==
    CASE P = "prepare" -> recipe.prepare_function
      [] P = "compile" -> recipe.compile_function
      [] P = "verify" -> recipe.verify_function

\* the position after a global phase
AfterPhase_VerifyFirst(P) ==
    CASE P = "prepare" -> "verify"
      [] P = "verify" -> "compile"
      [] P = "compile" -> "clear"

AfterPhase(P) ==
    CASE P = "prepare" -> "compile"
      [] P = "compile" -> "verify"
      [] P = "verify" -> "clear"

\* the position while the script of a global phase runs
RunPc(P) ==
    CASE P = "prepare" -> "run_prepare"
      [] P = "compile" -> "run_compile"
      [] P = "verify" -> "run_verify"

\* loadResumeState: the file's two tokens when it can be opened
LoadedState(found, state) == IF found = NoFile THEN state ELSE found

\* mutant: the resume state is never consulted
PhaseGate_NeverSkips(P) == TRUE

\* mutant: a marker naming no global phase makes every global phase run
PhaseGate_UnknownRunsAll(P) ==
    ~skipping \/ currentState.phase = P \/ currentState.phase \notin GlobalPhases

\* the condition guarding each global phase
PhaseGate(P) == ~skipping \/ currentState.phase = P

\* runWithBash: the results it can return for a script body
RunWithBash(script, customFuncs) ==
    IF script = "" /\ customFuncs = <<>> THEN {TRUE} ELSE {TRUE, FALSE}

\* mutant: the generic assemble() body is taken whenever there is one
AssembleScript_PrefersGeneric(pkgName) ==
    IF recipe.generic_assemble_function # ""
    THEN <<recipe.generic_assemble_function>>
    ELSE IF pkgName \in DOMAIN recipe.assemble_functions
    THEN <<recipe.assemble_functions[pkgName]>>
    ELSE <<>>

\* the assemble script selected for a package: the body handed to runWithBash, if any
AssembleScript(pkgName) ==
    IF pkgName \in DOMAIN recipe.assemble_functions
    THEN <<recipe.assemble_functions[pkgName]>>
    ELSE IF recipe.generic_assemble_function # ""
    THEN <<recipe.generic_assemble_function>>
    ELSE <<>>

\* the results of the assemble step of a package
AssembleResults(pkgName) ==
    LET chosen == AssembleScript(pkgName)
    IN  IF chosen = <<>> THEN {TRUE}
        ELSE RunWithBash(chosen[1], recipe.customFunctions)

\* mutant: the merged list is deduplicated
RECURSIVE Dedup(_)
Dedup(s) ==
    IF s = <<>> THEN <<>>
    ELSE LET front == Dedup(SubSeq(s, 1, Len(s) - 1))
         IN  IF \E k \in 1..Len(front) : front[k] = s[Len(s)]
             THEN front
             ELSE Append(front, s[Len(s)])

FinalDeps_Deduplicated(pkgName) ==
    Dedup(IF pkgName \in DOMAIN recipe.subpackageDependencies
          THEN recipe.dependencies \o recipe.subpackageDependencies[pkgName]
          ELSE recipe.dependencies)

\* mutant: the arrays of keys that name no declared package are appended as well
RECURSIVE Flattened(_, _)
Flattened(fn, keys) ==
    IF keys = {} THEN <<>>
    ELSE LET key == CHOOSE k \in keys : TRUE
         IN  fn[key] \o Flattened(fn, keys \ {key})

FinalDeps_UnknownKeysToo(pkgName) ==
    (IF pkgName \in DOMAIN recipe.subpackageDependencies
     THEN recipe.dependencies \o recipe.subpackageDependencies[pkgName]
     ELSE recipe.dependencies)
    \o Flattened(recipe.subpackageDependencies,
                 { key \in DOMAIN recipe.subpackageDependencies :
                     \A i \in 1..Len(recipe.package_names) : recipe.package_names[i] # key })

\* global dependencies followed by the package's own
FinalDeps(pkgName) ==
    IF pkgName \in DOMAIN recipe.subpackageDependencies
    THEN recipe.dependencies \o recipe.subpackageDependencies[pkgName]
    ELSE recipe.dependencies

\* mutant: the global description is written for every package
PkgDesc_AlwaysGlobal(i) == recipe.description

\* the description of the package at 1-based position i
PkgDesc(i) ==
    IF i - 1 < Len(recipe.package_descriptions)
    THEN recipe.package_descriptions[i]
    ELSE recipe.description

\* the YAML metadata of the package at position i
Metadata(i) ==
    [name |-> recipe.package_names[i],
     version |-> recipe.package_version,
     description |-> PkgDesc(i),
     dependencies |-> FinalDeps(recipe.package_names[i]),
     clashes |-> recipe.clashes,
     gives |-> recipe.gives,
     optional_dependencies |-> recipe.optional_dependencies]

\* an empty staging tree, and the tree of a package (kept from earlier runs)
EmptyTree == [hooks |-> <<>>, universal |-> <<>>, metadata |-> <<>>]

TreeOf(pkgName) == IF pkgName \in DOMAIN staged THEN staged[pkgName] ELSE EmptyTree

\* the regular files directly inside the recipe directory
HookCandidates ==
    { p[2] : p \in { q \in DOMAIN fsys : q[1] = "sb" /\ IsRegular(fsys, "sb", q[2])
                                         /\ FindLastOf(q[2], "/") = 0 } }

\* cleanupBuildArtifacts: what is removed below the recipe directory
CleanupGone(f, paths) ==
    { <<"sb", paths[k]>> : k \in 1..Len(paths) } \cup
    { <<"sb", StripExt(paths[k], 1)>> : k \in { j \in 1..Len(paths) :
          /\ StripExt(paths[j], 1) # paths[j]
          /\ Exists(f, "sb", StripExt(paths[j], 1))
          /\ f[<<"sb", StripExt(paths[j], 1)>>] \in {"dir", "emptydir"} } }

\* a step of the current run, for the history
Step(op, n) == <<op, n>>

(***************************************************************************)
(* createPackage as a process.  A run starts at "idle" and returns there.  *)
(* The recipe directory is taken to be writable: the run creates its       *)
(* staging trees and archives there, so saveResumeState's open succeeds.   *)
(***************************************************************************)

\* the run ends with createPackage returning false
Fail ==
    /\ pc' = "idle"
    /\ result' = "failed"

\* createPackage's skipping: whether loadResumeState found a resume file
Skipping_Always(found) == TRUE

Skipping(found) == found # NoFile

\* main's exit status, from what createPackage returned
ExitCode_AlwaysZero(success) == 0

ExitCode(success) == IF success THEN 0 ELSE 1

\* mutant: a recipe without a package name is let through
NoPackageName_Never(names) == FALSE

\* package_names.empty(): the recipe declares no package
NoPackageName(names) == names = <<>>

\* how a process gets to the pipeline: the recipe file opens, it does not, or the
\* user, being root, declines main's prompt
Startups == {"proceed", "unreadable", "refused"}

\* main up to the call of createPackage, then loadResumeState, parse_starbuild
\* and the package_names check
StartRun ==
    /\ pc = "idle"
    /\ runNo < MaxRuns
    /\ runNo' = runNo + 1
    /\ loaded' = resumeOnDisk
    /\ executed' = <<>>
    /\ currentState' = LoadedState(resumeOnDisk, [phase |-> "", pkgIndex |-> 0])
    /\ skipping' = Skipping(resumeOnDisk)
    /\ netOps' = <<>>
    /\ unpacked' = <<>>
    /\ intermediatePaths' = <<>>
    /\ srcIdx' = 1
    /\ pkgIdx' = 1
    /\ hookTodo' = {}
    /\ \E startup \in Startups :
          /\ trace' = IF startup = "proceed" THEN <<>> ELSE <<Step(startup, 0)>>
          /\ IF startup # "proceed" \/ NoPackageName(recipe.package_names)
             THEN Fail
             ELSE /\ pc' = IF recipe.sources = <<>> THEN "prepare" ELSE "fetch"
                  /\ result' = "running"
    /\ UNCHANGED <<parseVars, recipe, prev, clean, noStripping, cwdIsSb, resumeOnDisk, fsys, staged, archives>>

\* mutant: a failed source resolution removes the resume file
FetchStep_ClearsMarker ==
    /\ pc = "fetch"
    /\ srcIdx <= Len(recipe.sources)
    /\ \E o \in FetchOutcomes(fsys, recipe.sources[srcIdx]) :
          /\ fsys' = o.fs
          /\ resumeOnDisk' = IF o.ok THEN resumeOnDisk ELSE NoFile
          /\ intermediatePaths' = intermediatePaths \o o.pushed
          /\ netOps' = netOps \o [k \in 1..Len(o.net) |-> <<srcIdx, o.net[k]>>]
          /\ unpacked' = unpacked \o [k \in 1..Len(o.unpacked) |-> <<srcIdx, o.unpacked[k]>>]
          /\ trace' = IF o.ok
                       THEN Append(trace, Step("fetch", srcIdx))
                       ELSE trace \o <<Step("fetch", srcIdx), Step("fetch_failed", srcIdx)>>
          /\ IF o.ok
             THEN /\ srcIdx' = srcIdx + 1
                  /\ pc' = IF srcIdx = Len(recipe.sources) THEN "prepare" ELSE "fetch"
                  /\ UNCHANGED result
             ELSE /\ Fail
                  /\ UNCHANGED srcIdx
    /\ UNCHANGED <<parseVars, recipe, prev, clean, noStripping, cwdIsSb, staged, archives, skipping,
                   currentState, pkgIdx, hookTodo, loaded, executed, runNo>>

\* one iteration of fetchSources' loop
FetchStep ==
    /\ pc = "fetch"
    /\ srcIdx <= Len(recipe.sources)
    /\ \E o \in FetchOutcomes(fsys, recipe.sources[srcIdx]) :
          /\ fsys' = o.fs
          /\ intermediatePaths' = intermediatePaths \o o.pushed
          /\ netOps' = netOps \o [k \in 1..Len(o.net) |-> <<srcIdx, o.net[k]>>]
          /\ unpacked' = unpacked \o [k \in 1..Len(o.unpacked) |-> <<srcIdx, o.unpacked[k]>>]
          /\ trace' = IF o.ok
                       THEN Append(trace, Step("fetch", srcIdx))
                       ELSE trace \o <<Step("fetch", srcIdx), Step("fetch_failed", srcIdx)>>
          /\ IF o.ok
             THEN /\ srcIdx' = srcIdx + 1
                  /\ pc' = IF srcIdx = Len(recipe.sources) THEN "prepare" ELSE "fetch"
                  /\ UNCHANGED result
             ELSE /\ Fail
                  /\ UNCHANGED srcIdx
    /\ UNCHANGED <<parseVars, recipe, prev, clean, noStripping, cwdIsSb, resumeOnDisk, staged, archives, skipping,
                   currentState, pkgIdx, hookTodo, loaded, executed, runNo>>

\* mutant: the script is launched without writing the marker
BeginPhase_NoSave(P) ==
    /\ pc = P
    /\ PhaseGate(P)
    /\ skipping' = FALSE
    /\ currentState' = [phase |-> P, pkgIndex |-> 0]
    /\ trace' = Append(trace, Step(P, 0))
    /\ pc' = RunPc(P)
    /\ UNCHANGED <<parseVars, recipe, prev, clean, noStripping, cwdIsSb, resumeOnDisk, fsys, staged, archives, srcIdx,
                   intermediatePaths, pkgIdx, hookTodo, netOps, unpacked, loaded, executed,
                   result, runNo>>

\* a global phase is entered: the marker is written, then the script is launched
BeginPhase(P) ==
    /\ pc = P
    /\ PhaseGate(P)
    /\ skipping' = FALSE
    /\ currentState' = [phase |-> P, pkgIndex |-> 0]
    /\ resumeOnDisk' = currentState'
    /\ trace' = Append(trace, Step(P, 0))
    /\ pc' = RunPc(P)
    /\ UNCHANGED <<parseVars, recipe, prev, clean, noStripping, cwdIsSb, fsys, staged, archives, srcIdx,
                   intermediatePaths, pkgIdx, hookTodo, netOps, unpacked, loaded, executed,
                   result, runNo>>

\* a global phase is skipped
SkipPhase(P) ==
    /\ pc = P
    /\ ~PhaseGate(P)
    /\ pc' = AfterPhase(P)
    /\ UNCHANGED <<parseVars, recipe, prev, clean, noStripping, cwdIsSb, resumeOnDisk, fsys, staged, archives, skipping,
                   currentState, srcIdx, intermediatePaths, pkgIdx, hookTodo, trace,
                   netOps, unpacked, loaded, executed, result, runNo>>

\* mutant: the exit status of the script is ignored
EndPhase_IgnoresExit(P) ==
    /\ pc = RunPc(P)
    /\ \E ok \in RunWithBash(PhaseScript(P), recipe.customFunctions) :
          /\ pc' = AfterPhase(P)
          /\ trace' = IF ok THEN trace ELSE Append(trace, Step("nonzero", 0))
    /\ UNCHANGED <<parseVars, recipe, prev, clean, noStripping, cwdIsSb, resumeOnDisk, fsys, staged, archives, skipping,
                   currentState, srcIdx, intermediatePaths, pkgIdx, hookTodo,
                   netOps, unpacked, loaded, executed, result, runNo>>

\* the script of a global phase returns
EndPhase(P) ==
    /\ pc = RunPc(P)
    /\ \E ok \in RunWithBash(PhaseScript(P), recipe.customFunctions) :
          IF ok
          THEN pc' = AfterPhase(P) /\ UNCHANGED <<result, trace>>
          ELSE Fail /\ trace' = Append(trace, Step("nonzero", 0))
    /\ UNCHANGED <<parseVars, recipe, prev, clean, noStripping, cwdIsSb, resumeOnDisk, fsys, staged, archives, skipping,
                   currentState, srcIdx, intermediatePaths, pkgIdx, hookTodo,
                   netOps, unpacked, loaded, executed, runNo>>

\* mutant: the resume file is left in place
ClearResume_KeepsFile ==
    /\ pc = "clear"
    /\ pkgIdx' = 1
    /\ trace' = Append(trace, Step("clear", 0))
    /\ pc' = "stage"
    /\ UNCHANGED <<parseVars, recipe, prev, clean, noStripping, cwdIsSb, resumeOnDisk, fsys, staged, archives, skipping,
                   currentState, srcIdx, intermediatePaths, hookTodo,
                   netOps, unpacked, loaded, executed, result, runNo>>

\* clearResumeState after the three global phases
ClearResume ==
    /\ pc = "clear"
    /\ resumeOnDisk' = NoFile
    /\ pkgIdx' = 1
    /\ trace' = Append(trace, Step("clear", 0))
    /\ pc' = "stage"
    /\ UNCHANGED <<parseVars, recipe, prev, clean, noStripping, cwdIsSb, fsys, staged, archives, skipping,
                   currentState, srcIdx, intermediatePaths, hookTodo,
                   netOps, unpacked, loaded, executed, result, runNo>>

\* the staging directories of package i are created and the hook loop is set up
StagePackage ==
    /\ pc = "stage"
    /\ staged' = Put(staged, recipe.package_names[pkgIdx], TreeOf(recipe.package_names[pkgIdx]))
    /\ hookTodo' = HookCandidates
    /\ trace' = Append(trace, Step("stage", pkgIdx))
    /\ pc' = "hooks"
    /\ UNCHANGED <<parseVars, recipe, prev, clean, noStripping, cwdIsSb, resumeOnDisk, fsys, archives, skipping,
                   currentState, srcIdx, intermediatePaths, pkgIdx, netOps, unpacked,
                   loaded, executed, result, runNo>>

\* the tree after the hook loop has visited filename
RouteHook(tree, pkgName, singlePackageBuild, filename) ==
    IF ~HookMatches(pkgName, singlePackageBuild, filename)
    THEN tree
    ELSE LET dest == HookDest(pkgName, singlePackageBuild, filename)
         IN  IF dest[1] = "universal-hooks"
             THEN [tree EXCEPT !.universal = Put(tree.universal, dest[2], filename)]
             ELSE [tree EXCEPT !.hooks = Put(tree.hooks, dest[2], filename)]

\* one iteration of the hook loop; the directory order is unspecified
HookStep ==
    /\ pc = "hooks"
    /\ \E filename \in hookTodo :
          /\ hookTodo' = hookTodo \ {filename}
          /\ staged' = [staged EXCEPT ![recipe.package_names[pkgIdx]] =
                            RouteHook(@, recipe.package_names[pkgIdx],
                                      Len(recipe.package_names) = 1, filename)]
    /\ UNCHANGED <<parseVars, recipe, prev, clean, noStripping, cwdIsSb, resumeOnDisk, fsys, archives, pc, skipping,
                   currentState, srcIdx, intermediatePaths, pkgIdx, trace, netOps,
                   unpacked, loaded, executed, result, runNo>>

\* the assemble script of package i (or the no-op when there is none)
AssembleStep ==
    /\ pc = "hooks"
    /\ hookTodo = {}
    /\ executed' = executed \o [k \in 1..Len(AssembleScript(recipe.package_names[pkgIdx])) |->
                                    <<pkgIdx, AssembleScript(recipe.package_names[pkgIdx])[k]>>]
    /\ \E ok \in AssembleResults(recipe.package_names[pkgIdx]) :
          IF ok
          THEN /\ pc' = "post"
               /\ trace' = Append(trace, Step("assemble", pkgIdx))
               /\ UNCHANGED result
          ELSE /\ Fail
               /\ trace' = trace \o <<Step("assemble", pkgIdx), Step("nonzero", pkgIdx)>>
    /\ UNCHANGED <<parseVars, recipe, prev, clean, noStripping, cwdIsSb, resumeOnDisk, fsys, staged, archives, skipping,
                   currentState, srcIdx, intermediatePaths, pkgIdx, hookTodo, netOps,
                   unpacked, loaded, runNo>>

\* postProcessFiles: always reports success
PostProcess ==
    /\ pc = "post"
    /\ trace' = Append(trace, Step("post", pkgIdx))
    /\ pc' = "package"
    /\ UNCHANGED <<parseVars, recipe, prev, clean, noStripping, cwdIsSb, resumeOnDisk, fsys, staged, archives, skipping,
                   currentState, srcIdx, intermediatePaths, pkgIdx, hookTodo, netOps,
                   unpacked, loaded, executed, result, runNo>>

\* mutant: a packaging failure does not end the loop
PackageStep_ContinuesOnFailure ==
    /\ pc = "package"
    /\ \E how \in {"ok", "early", "tar"} :
          LET pkgName == recipe.package_names[pkgIdx]
          IN  /\ staged' = IF how = "early" THEN staged
                           ELSE [staged EXCEPT ![pkgName].metadata = <<Metadata(pkgIdx)>>]
              /\ archives' = CASE how = "ok" -> Put(archives, pkgName, <<Metadata(pkgIdx)>>)
                               [] how = "tar" -> Put(archives, pkgName, <<>>)
                               [] how = "early" -> archives
              /\ pkgIdx' = pkgIdx + 1
              /\ pc' = IF pkgIdx = Len(recipe.package_names) THEN "finish" ELSE "stage"
              /\ trace' = IF how = "ok"
                          THEN Append(trace, Step("archive", pkgIdx))
                          ELSE trace \o <<Step("archive", pkgIdx),
                                          Step("archive_failed", pkgIdx)>>
    /\ UNCHANGED <<parseVars, recipe, prev, clean, noStripping, cwdIsSb, resumeOnDisk, fsys, skipping,
                   currentState, srcIdx, intermediatePaths, hookTodo, netOps,
                   unpacked, loaded, executed, result, runNo>>

\* Metadata and packageStarpack for package i.  The packager fails before tar
\* (metadata.yaml or a symlink cannot be written), in tar|zstd (the redirection
\* has then already truncated the output file), or succeeds.
PackageStep ==
    /\ pc = "package"
    /\ \E how \in {"ok", "early", "tar"} :
          LET pkgName == recipe.package_names[pkgIdx]
          IN  /\ staged' = IF how = "early" THEN staged
                           ELSE [staged EXCEPT ![pkgName].metadata = <<Metadata(pkgIdx)>>]
              /\ archives' = CASE how = "ok" -> Put(archives, pkgName, <<Metadata(pkgIdx)>>)
                               [] how = "tar" -> Put(archives, pkgName, <<>>)
                               [] how = "early" -> archives
              /\ IF how = "ok"
                 THEN /\ pkgIdx' = pkgIdx + 1
                      /\ pc' = IF pkgIdx = Len(recipe.package_names) THEN "finish" ELSE "stage"
                      /\ trace' = Append(trace, Step("archive", pkgIdx))
                      /\ UNCHANGED result
                 ELSE /\ Fail
                      /\ trace' = trace \o <<Step("archive", pkgIdx),
                                              Step("archive_failed", pkgIdx)>>
                      /\ UNCHANGED pkgIdx
    /\ UNCHANGED <<parseVars, recipe, prev, clean, noStripping, cwdIsSb, resumeOnDisk, fsys, skipping,
                   currentState, srcIdx, intermediatePaths, hookTodo, netOps,
                   unpacked, loaded, executed, runNo>>

\* mutant: the cleanup pass runs whether or not --clean was given
Finish_CleansUnasked ==
    /\ pc = "finish"
    /\ staged' = <<>>
    /\ fsys' = WithoutEntries(fsys, CleanupGone(fsys, intermediatePaths))
    /\ trace' = Append(trace, Step("cleanup", 0))
    /\ pc' = "idle"
    /\ result' = "ok"
    /\ UNCHANGED <<parseVars, recipe, prev, clean, noStripping, cwdIsSb, resumeOnDisk, archives, skipping,
                   currentState, srcIdx, intermediatePaths, pkgIdx, hookTodo, netOps,
                   unpacked, loaded, executed, runNo>>

\* the end of createPackage: the optional cleanup, then success
Finish ==
    /\ pc = "finish"
    /\ IF clean
       THEN /\ staged' = <<>>
            /\ fsys' = WithoutEntries(fsys, CleanupGone(fsys, intermediatePaths))
            /\ trace' = Append(trace, Step("cleanup", 0))
       ELSE UNCHANGED <<staged, fsys, trace>>
    /\ pc' = "idle"
    /\ result' = "ok"
    /\ UNCHANGED <<parseVars, recipe, prev, clean, noStripping, cwdIsSb, resumeOnDisk, archives, skipping,
                   currentState, srcIdx, intermediatePaths, pkgIdx, hookTodo, netOps,
                   unpacked, loaded, executed, runNo>>

\* the process is killed while a run is in progress
Crash ==
    /\ pc # "idle"
    /\ pc' = "idle"
    /\ result' = "crashed"
    /\ UNCHANGED <<parseVars, recipe, prev, clean, noStripping, cwdIsSb, resumeOnDisk, fsys, staged, archives, skipping,
                   currentState, srcIdx, intermediatePaths, pkgIdx, hookTodo, trace,
                   netOps, unpacked, loaded, executed, runNo>>

(***************************************************************************)
(* The recipes and environments of the pipeline specification.             *)
(***************************************************************************)
PkgA == <<"a">>
PkgB == <<"b">>
PkgC == <<"c">>
PkgD == <<"d">>
PkgPool == <<PkgA, PkgB, PkgC, PkgD>>

LocalSrc == <<"l">>
BadCustomSrc == <<"c", ":", ":", "n">>
UrlSrc == <<"h", ":", "/", "/", "x", "/", "f">>
HookAPre == <<"a", "-", "p", "r", "e", ".", "h", "o", "o", "k">>
HookPre == <<"p", "r", "e", ".", "h", "o", "o", "k">>

\* the first n names of the pool
Names(n) == SubSeq(PkgPool, 1, IF n <= Len(PkgPool) THEN n ELSE Len(PkgPool))

SourceLists == {<<>>, <<LocalSrc>>, <<UrlSrc, BadCustomSrc>>, <<BadCustomSrc, LocalSrc>>}

ScriptProfiles ==
    { [prepare_function |-> "", compile_function |-> "", verify_function |-> "",
       generic_assemble_function |-> "", assemble_functions |-> <<>>,
       customFunctions |-> <<>>],
      [prepare_function |-> "P", compile_function |-> "C", verify_function |-> "V",
       generic_assemble_function |-> "A", assemble_functions |-> <<>>,
       customFunctions |-> <<>>],
      [prepare_function |-> "", compile_function |-> "C", verify_function |-> "",
       generic_assemble_function |-> "", assemble_functions |-> Put(<<>>, PkgB, "AB"),
       customFunctions |-> <<"helper() {...}">>],
      [prepare_function |-> "", compile_function |-> "", verify_function |-> "",
       generic_assemble_function |-> "A", assemble_functions |-> Put(<<>>, PkgB, ""),
       customFunctions |-> <<>>] }

DepProfiles ==
    { [dependencies |-> <<>>, subpackageDependencies |-> <<>>,
       description |-> "d", package_descriptions |-> <<>>],
      [dependencies |-> <<"libc">>, subpackageDependencies |-> Put(<<>>, PkgB, <<"extra">>),
       description |-> "d", package_descriptions |-> <<"da">>],
      [dependencies |-> <<"libc">>,
       subpackageDependencies |-> Put(Put(<<>>, PkgA, <<"libc", "z">>), <<"z", "z">>, <<"q">>),
       description |-> "d", package_descriptions |-> <<"da", "db", "dc", "dd">>] }

MakeRecipe(names, srcs, sp, dp) ==
    [package_names |-> names,
     package_version |-> "1",
     description |-> dp.description,
     package_descriptions |-> dp.package_descriptions,
     dependencies |-> dp.dependencies,
     subpackageDependencies |-> dp.subpackageDependencies,
     clashes |-> <<>>,
     gives |-> <<>>,
     optional_dependencies |-> <<>>,
     sources |-> srcs,
     prepare_function |-> sp.prepare_function,
     compile_function |-> sp.compile_function,
     verify_function |-> sp.verify_function,
     generic_assemble_function |-> sp.generic_assemble_function,
     assemble_functions |-> sp.assemble_functions,
     customFunctions |-> sp.customFunctions,
     symlinkPairs |-> <<>>]

Recipes ==
    { MakeRecipe(Names(n), srcs, sp, dp) :
        n \in 0..MaxPackages, srcs \in SourceLists, sp \in ScriptProfiles, dp \in DepProfiles }

\* the resume files a run can find: none, the three the code writes, and files left
\* by hand or by a truncated write
Marker(phase, pkgIndex) == [phase |-> phase, pkgIndex |-> pkgIndex]

InitialMarkers ==
    {NoFile, Marker("prepare", 0), Marker("compile", 0), Marker("verify", 0),
     Marker("compile", 1), Marker("assemble", 1), Marker("", 0)}

\* the recipe directory: a local source and two hook files
RecipeDir ==
    Put(Put(Put(<<>>, <<"sb", LocalSrc>>, "archive"), <<"sb", HookAPre>>, "plain"),
        <<"sb", HookPre>>, "plain")

\* everything but the inputs, as it is before the first run
InitProcess ==
    /\ staged = <<>>
    /\ archives = <<>>
    /\ pc = "idle"
    /\ skipping = FALSE
    /\ currentState = Marker("", 0)
    /\ srcIdx = 1
    /\ intermediatePaths = <<>>
    /\ pkgIdx = 1
    /\ hookTodo = {}
    /\ trace = <<>>
    /\ netOps = <<>>
    /\ unpacked = <<>>
    /\ loaded = NoFile
    /\ executed = <<>>
    /\ result = "none"
    /\ runNo = 0
    /\ prev = [result |-> "none", paths |-> <<>>, net |-> <<>>]
    /\ file = <<>>
    /\ ps = NotParsing

Init ==
    /\ recipe \in Recipes
    /\ clean \in BOOLEAN
    /\ cwdIsSb \in BOOLEAN
    /\ resumeOnDisk \in InitialMarkers
    /\ fsys = RecipeDir
    /\ InitProcess
    /\ noStripping = FALSE

Next ==
    \/ StartRun
    \/ FetchStep
    \/ \E P \in GlobalPhases : BeginPhase(P)
    \/ \E P \in GlobalPhases : SkipPhase(P)
    \/ \E P \in GlobalPhases : EndPhase(P)
    \/ ClearResume
    \/ StagePackage
    \/ HookStep
    \/ AssembleStep
    \/ PostProcess
    \/ PackageStep
    \/ Finish
    \/ Crash

Spec == Init /\ [][Next]_vars

(***************************************************************************)
(* Reading the history of the current run.                                 *)
(***************************************************************************)
InTrace(s) == \E k \in 1..Len(trace) : trace[k] = s

PhaseOrder(P) ==
    CASE P = "prepare" -> 1
      [] P = "compile" -> 2
      [] P = "verify" -> 3

IsGlobalStep(s) == s[1] \in GlobalPhases

IsAssembleStep(s) == s[1] = "assemble"

IsLoopStep(s) == s[1] \in {"assemble", "archive"}

InPackageLoop(s) == s[1] \in {"stage", "assemble", "post", "archive", "cleanup"}

\* the steps of the global phases, of the assemble scripts, and of the package loop
GlobalSteps == SelectSeq(trace, IsGlobalStep)

AssembleSteps == SelectSeq(trace, IsAssembleStep)

LoopSteps == SelectSeq(trace, IsLoopStep)

\* a run is finished and was the run of a started process
RunEnded == pc = "idle" /\ runNo > 0

\* C1: a run that loaded a marker naming global phase P executes no global phase
\* before P; when every step succeeds it executes P, every later global phase and
\* the assemble step of every declared package.
C1_ResumeSkipping ==
    (runNo > 0 /\ loaded.phase \in GlobalPhases) =>
        /\ \A Q \in GlobalPhases :
               PhaseOrder(Q) < PhaseOrder(loaded.phase) => ~InTrace(Step(Q, 0))
        /\ (RunEnded /\ result = "ok") =>
               /\ \A Q \in GlobalPhases :
                      PhaseOrder(Q) >= PhaseOrder(loaded.phase) => InTrace(Step(Q, 0))
               /\ \A i \in 1..Len(recipe.package_names) : InTrace(Step("assemble", i))

\* a run resumed at compile has succeeded with two packages and non-empty scripts
C1_Witness ==
    /\ RunEnded /\ result = "ok"
    /\ loaded = Marker("compile", 0)
    /\ Len(recipe.package_names) = 2
    /\ recipe.prepare_function # ""
    /\ GlobalSteps = <<Step("compile", 0), Step("verify", 0)>>
    /\ AssembleSteps = <<Step("assemble", 1), Step("assemble", 2)>>

C4_GlobalPhaseAbort ==
    InTrace(Step("nonzero", 0)) =>
        /\ trace[Len(trace)] = Step("nonzero", 0)
        /\ pc = "idle" /\ result = "failed"
        /\ \A k \in 1..Len(trace) : ~InPackageLoop(trace[k])
        /\ \A k \in 1..(Len(GlobalSteps) - 1) :
               PhaseOrder(GlobalSteps[k][1]) < PhaseOrder(GlobalSteps[k + 1][1])
        /\ \A k \in 1..Len(intermediatePaths) : Exists(fsys, Cwd, intermediatePaths[k])

\* compile failed under --clean after a source was fetched
C4_Witness ==
    /\ InTrace(Step("nonzero", 0))
    /\ clean
    /\ GlobalSteps = <<Step("prepare", 0), Step("compile", 0)>>
    /\ intermediatePaths # <<>>

\* C5: when resolving source k fails, no later source is processed and no script
\* is run in that run; a custom name::value descriptor without "://" in the value
\* fails.
C5_FetchFailureFirst ==
    /\ \A k \in 1..Len(recipe.sources) :
           InTrace(Step("fetch_failed", k)) =>
               /\ trace[Len(trace)] = Step("fetch_failed", k)
               /\ Len(trace) = k + 1
               /\ \A j \in 1..k : trace[j] = Step("fetch", j)
               /\ pc = "idle" /\ result = "failed"
    /\ \A k \in 1..Len(recipe.sources) :
           (InTrace(Step("fetch", k)) /\ IsCustom(recipe.sources[k])
              /\ ~IsRemote(ActualUrl(recipe.sources[k])))
               => InTrace(Step("fetch_failed", k))

\* a resumed run stopped at the malformed first source, the second untouched
C5_Witness ==
    /\ loaded = Marker("compile", 0)
    /\ recipe.sources = <<BadCustomSrc, LocalSrc>>
    /\ trace = <<Step("fetch", 1), Step("fetch_failed", 1)>>
    /\ recipe.compile_function # ""

\* the dependency list the claim describes for a package
ExpectedDeps(pkgName) ==
    recipe.dependencies \o
    (IF pkgName \in DOMAIN recipe.subpackageDependencies
     THEN recipe.subpackageDependencies[pkgName]
     ELSE <<>>)

\* position of a declared package name
IndexOf(pkgName) == CHOOSE i \in 1..Len(recipe.package_names) : recipe.package_names[i] = pkgName

\* C8: assemble and archive steps alternate through the packages in declaration
\* order; when the assemble script or the packager fails for package i the run is
\* over and failed, no later package was staged, assembled or archived, and the
\* archives of the packages before i hold what the run wrote.
C8_PackageLoopOrderAndAbort ==
    /\ \A k \in 1..Len(LoopSteps) :
           LoopSteps[k] = Step(IF k % 2 = 1 THEN "assemble" ELSE "archive", (k + 1) \div 2)
    /\ \A i \in 1..Len(recipe.package_names) :
           (InTrace(Step("nonzero", i)) \/ InTrace(Step("archive_failed", i))) =>
               /\ trace[Len(trace)] \in {Step("nonzero", i), Step("archive_failed", i)}
               /\ pc = "idle" /\ result = "failed"
               /\ \A k \in 1..Len(trace) : InPackageLoop(trace[k]) => trace[k][2] <= i
               /\ \A j \in 1..(i - 1) :
                      /\ recipe.package_names[j] \in DOMAIN archives
                      /\ archives[recipe.package_names[j]] = <<Metadata(j)>>

\* the packager failed for the second package after the first was archived
C8_Witness ==
    /\ InTrace(Step("archive_failed", 2))
    /\ Len(recipe.package_names) = 2
    /\ runNo = 1
    /\ PkgA \in DOMAIN archives /\ archives[PkgA] # <<>>

\* C10: the dependency list in each package's metadata is the global list followed
\* by the package's own list, in order and with duplicates; the recipe with
\* packages (a, b), global (libc) and dependencies_b = (extra) yields one archive
\* per package, a with [libc] and b with [libc, extra].
C10_DependencyMerge ==
    /\ \A pkgName \in DOMAIN archives :
           archives[pkgName] # <<>> =>
               /\ archives[pkgName][1].name = pkgName
               /\ archives[pkgName][1].dependencies = ExpectedDeps(pkgName)
    /\ \A pkgName \in DOMAIN staged :
           staged[pkgName].metadata # <<>> =>
               staged[pkgName].metadata[1].dependencies = ExpectedDeps(pkgName)
    /\ (/\ RunEnded /\ result = "ok"
        /\ recipe.package_names = <<PkgA, PkgB>>
        /\ recipe.dependencies = <<"libc">>
        /\ DOMAIN recipe.subpackageDependencies = {PkgB}
        /\ recipe.subpackageDependencies[PkgB] = <<"extra">>)
           => /\ DOMAIN archives = {PkgA, PkgB}
              /\ archives[PkgA][1].dependencies = <<"libc">>
              /\ archives[PkgB][1].dependencies = <<"libc", "extra">>

\* a package whose own list repeats a global dependency has been archived
C10_Witness ==
    /\ RunEnded /\ result = "ok"
    /\ recipe.package_names = <<PkgA, PkgB>>
    /\ PkgA \in DOMAIN archives /\ archives[PkgA] # <<>>
    /\ archives[PkgA][1].dependencies = <<"libc", "libc", "z">>
    /\ archives[PkgB][1].dependencies = <<"libc">>


(***************************************************************************)
(* fetchSources on its own: the call is made twice in a row on lists drawn *)
(* from a pool holding every descriptor form, in directories where the     *)
(* targets are absent, present, or present but empty or not archives.      *)
(***************************************************************************)
UrlBase == <<"h", ":", "/", "/", "x", "/">>
RepoDir == <<"r">>
FileC == <<"c">>
FileF == <<"f">>
SrcGit == GitPlus \o UrlBase \o RepoDir \o DotGit
SrcCustom == FileC \o DoubleColon \o UrlSrc
SrcCustomNoExtractName == NoExtractMarker \o DoubleColon \o UrlSrc
SrcUrlNoExtractLast == UrlBase \o NoExtractMarker
SrcUrlNoExtractSegment == UrlBase \o NoExtractMarker \o <<"/">> \o FileF
SrcUrlNoExtractHost == <<"h", ":", "/", "/">> \o NoExtractMarker \o <<"/">> \o FileF
SrcLocalNoExtractDir == NoExtractMarker \o <<"/">> \o LocalSrc
SrcLocalNoExtractName == LocalSrc \o NoExtractMarker

SourcePool ==
    {SrcGit, SrcCustom, SrcCustomNoExtractName, SrcUrlNoExtractLast,
     SrcUrlNoExtractSegment, SrcUrlNoExtractHost, SrcLocalNoExtractDir,
     SrcLocalNoExtractName}

\* the lists of 1..MaxSources descriptors
FetchLists == UNION { [1..n -> SourcePool] : n \in 1..MaxSources }

\* the local sources, all archives, in the recipe directory
LocalSources ==
    Put(Put(Put(<<>>, <<"sb", LocalSrc>>, "archive"),
            <<"sb", SrcLocalNoExtractDir>>, "archive"),
        <<"sb", SrcLocalNoExtractName>>, "archive")

\* the working directory before the first call: nothing fetched yet, every remote
\* target present, or targets that are an empty directory and non-archive files
FetchDirs(cwd) ==
    { LocalSources,
      Put(Put(Put(Put(LocalSources, <<cwd, RepoDir>>, "dir"), <<cwd, FileC>>, "archive"),
              <<cwd, FileF>>, "archive"), <<cwd, NoExtractMarker>>, "archive"),
      Put(Put(Put(LocalSources, <<cwd, RepoDir>>, "emptydir"), <<cwd, FileC>>, "plain"),
          <<cwd, FileF>>, "plain") }

\* fetchSources is called with an empty artifact list
StartFetch ==
    /\ pc = "idle"
    /\ runNo < MaxRuns
    /\ runNo' = runNo + 1
    /\ prev' = [result |-> result, paths |-> intermediatePaths, net |-> netOps]
    /\ intermediatePaths' = <<>>
    /\ srcIdx' = 1
    /\ trace' = <<>>
    /\ netOps' = <<>>
    /\ unpacked' = <<>>
    /\ pc' = "fetch"
    /\ result' = "running"
    /\ UNCHANGED <<parseVars, recipe, clean, noStripping, cwdIsSb, resumeOnDisk, fsys, staged, archives, skipping,
                   currentState, pkgIdx, hookTodo, loaded, executed>>

\* fetchSources returns true
FetchReturn ==
    /\ pc = "prepare"
    /\ pc' = "idle"
    /\ result' = "ok"
    /\ UNCHANGED <<parseVars, recipe, prev, clean, noStripping, cwdIsSb, resumeOnDisk, fsys, staged, archives, skipping,
                   currentState, srcIdx, intermediatePaths, pkgIdx, hookTodo, trace,
                   netOps, unpacked, loaded, executed, runNo>>

\* a recipe with the given sources, one package, no scripts and no dependencies
FetchRecipe(srcs) ==
    MakeRecipe(Names(1), srcs,
               CHOOSE sp \in ScriptProfiles : sp.compile_function = "",
               CHOOSE dp \in DepProfiles : dp.dependencies = <<>>)

InitFetch ==
    /\ recipe \in { FetchRecipe(srcs) : srcs \in FetchLists }
    /\ clean = FALSE
    /\ cwdIsSb \in BOOLEAN
    /\ resumeOnDisk = NoFile
    /\ fsys \in FetchDirs(Cwd)
    /\ InitProcess
    /\ noStripping = FALSE

NextFetch ==
    \/ StartFetch
    \/ FetchStep
    \/ FetchReturn

SpecFetch == InitFetch /\ [][NextFetch]_vars

\* the name a descriptor's artifact has in the working directory
TargetName(src) ==
    IF StartsWith(src, GitPlus) THEN RepoName(src)
    ELSE IF IsCustom(src) THEN CustomFilename(src)
    ELSE IF IsRemote(src) THEN UrlFilename(src)
    ELSE LocalFilename(src)

\* the artifact of a git, custom-name or URL descriptor is already in place
AlreadyFetched(f, src) ==
    IF StartsWith(src, GitPlus)
    THEN Exists(f, Cwd, RepoName(src)) /\ ~IsEmptyEntry(f, Cwd, RepoName(src))
    ELSE IF IsCustom(src) THEN IsRemote(ActualUrl(src)) /\ Exists(f, Cwd, CustomFilename(src))
    ELSE IsRemote(src) /\ Exists(f, Cwd, UrlFilename(src))

\* the step about to be taken resolves the current source
ResolvesSource == pc = "fetch" /\ trace' # trace

\* a second call that followed a successful one has returned
SecondCallReturned == pc = "idle" /\ runNo >= 2 /\ prev.result = "ok"

(***************************************************************************)
(* C6, C7: source resolution.                                              *)
(***************************************************************************)

\* what C6 says of one resolution step
SkipsFetch(src) ==
    /\ netOps' = netOps
    /\ intermediatePaths' = Append(intermediatePaths, TargetName(src))

\* what C6 says of two calls in a row
SecondCallRepeats ==
    SecondCallReturned =>
        /\ netOps = <<>>
        /\ result = "ok" => intermediatePaths = prev.paths

\* C6 as stated: for a git source whose derived directory exists and is non-empty,
\* and for a custom-name or URL source whose target file already exists, resolution
\* performs no clone and no download, succeeds, and still appends the target name to
\* the artifact list; a second call that follows a successful one performs no network
\* operation and returns the same list.
C6_AsStated ==
    /\ [][ResolvesSource /\ AlreadyFetched(fsys, recipe.sources[srcIdx])
             => SkipsFetch(recipe.sources[srcIdx]) /\ result' # "failed"]_vars
    /\ []SecondCallRepeats

\* C6, amended: as stated, except that the step succeeds only if the existing file
\* is not unpacked or its extraction succeeds: a git source always succeeds, and a
\* custom-name or URL source fails exactly when the existing file is sniffed as an
\* archive, is handed to libarchive, and the extraction fails.
C6_IdempotentResolution ==
    /\ [][ResolvesSource /\ AlreadyFetched(fsys, recipe.sources[srcIdx])
             => /\ SkipsFetch(recipe.sources[srcIdx])
                /\ result' = "failed" =>
                      /\ ~StartsWith(recipe.sources[srcIdx], GitPlus)
                      /\ isArchiveFile(fsys, TargetName(recipe.sources[srcIdx]))
                      /\ unpacked' = Append(unpacked,
                                        <<srcIdx, TargetName(recipe.sources[srcIdx])>>)]_vars
    /\ []SecondCallRepeats

\* a second call returned the list of the first, which had cloned and downloaded,
\* without touching the network
C6_Witness ==
    /\ SecondCallReturned
    /\ result = "ok"
    /\ Len(recipe.sources) = 2
    /\ StartsWith(recipe.sources[1], GitPlus)
    /\ IsRemote(recipe.sources[2])
    /\ Len(prev.net) = 2
    /\ netOps = <<>>
    /\ intermediatePaths = prev.paths
    /\ Len(intermediatePaths) = 2

\* the source at position k has been resolved in this call
Resolved(k) == InTrace(Step("fetch", k))

\* the source at position k was handed to libarchive in this call
Unpacked(k) == \E i \in 1..Len(unpacked) : unpacked[i][1] = k

PkgFoo == <<"f", "o", "o">>
PkgBar == <<"b", "a", "r">>
PkgDot == <<"f", ".", "o">>
PkgPlus == <<"g", "+">>
PreHook == <<"-">> \o HookPre
HookFooPre == PkgFoo \o PreHook
HookFooUpper == <<"F", "O", "O">> \o PreHook
HookBarPre == PkgBar \o PreHook
HookFxoPre == <<"f", "x", "o">> \o PreHook
HookPlusPre == PkgPlus \o PreHook
HookSetup == <<"0", "1", "-", "s", "e", "t", "u", "p">> \o DotHook
Notes == <<"n", "o", "t", "e", "s", ".", "t", "x", "t">>

PkgFooBar == PkgFoo \o <<"-">> \o PkgBar
HookFooBarPre == PkgFooBar \o PreHook

HookNameLists ==
    {<<PkgFoo>>, <<PkgFoo, PkgBar>>, <<PkgDot, PkgBar>>, <<PkgPlus>>, <<PkgPlus, PkgBar>>,
     <<PkgFoo, PkgFooBar>>}

HookFilePool ==
    {HookFooPre, HookPre, HookSetup, HookFooUpper, HookBarPre, HookFxoPre, HookPlusPre, Notes,
     HookFooBarPre}

\* the recipe directory holding the files of names, all regular
HookDir(names) == [p \in {<<"sb", n>> : n \in names} |-> "plain"]

\* the rest of the iteration leaves the hooks alone; the loop moves to the next package
NextPackage ==
    /\ pc = "hooks"
    /\ hookTodo = {}
    /\ IF pkgIdx < Len(recipe.package_names)
       THEN /\ pkgIdx' = pkgIdx + 1
            /\ pc' = "stage"
            /\ UNCHANGED result
       ELSE /\ pc' = "idle"
            /\ result' = "ok"
            /\ UNCHANGED pkgIdx
    /\ UNCHANGED <<parseVars, recipe, prev, clean, noStripping, cwdIsSb, resumeOnDisk, fsys, staged, archives, skipping,
                   currentState, srcIdx, intermediatePaths, hookTodo, trace, netOps,
                   unpacked, loaded, executed, runNo>>

InitHooks ==
    /\ recipe \in { [FetchRecipe(<<>>) EXCEPT !.package_names = names] : names \in HookNameLists }
    /\ clean = FALSE
    /\ noStripping = FALSE
    /\ cwdIsSb = TRUE
    /\ resumeOnDisk = NoFile
    /\ fsys \in { HookDir(names) : names \in { S \in SUBSET HookFilePool : Cardinality(S) <= MaxHookFiles } }
    /\ staged = <<>>
    /\ archives = <<>>
    /\ pc = "stage"
    /\ skipping = FALSE
    /\ currentState = Marker("", 0)
    /\ srcIdx = 1
    /\ intermediatePaths = <<>>
    /\ pkgIdx = 1
    /\ hookTodo = {}
    /\ trace = <<>>
    /\ netOps = <<>>
    /\ unpacked = <<>>
    /\ loaded = NoFile
    /\ executed = <<>>
    /\ result = "running"
    /\ runNo = 1
    /\ prev = [result |-> "none", paths |-> <<>>, net |-> <<>>]
    /\ file = <<>>
    /\ ps = NotParsing

NextHooks ==
    \/ StagePackage
    \/ HookStep
    \/ NextPackage

SpecHooks == InitHooks /\ [][NextHooks]_vars

(***************************************************************************)
(* C9: hook routing.                                                       *)
(***************************************************************************)

\* filename starts with prefix, letter case ignored
StartsWithNoCase(filename, prefix) ==
    /\ Len(filename) >= Len(prefix)
    /\ \A k \in 1..Len(prefix) : ToLower(filename[k]) = ToLower(prefix[k])

\* filename reads "<pkgName>-<phase>.hook", the package name taken as text
HasPackagePrefix(pkgName, filename) ==
    /\ StartsWithNoCase(filename, pkgName \o <<"-">>)
    /\ IsHookName(Tail_(filename, Len(pkgName) + 2))

\* the files C9 routes to a package
NamedForPackage(pkgName, singlePackageBuild, filename) ==
    \/ HasPackagePrefix(pkgName, filename)
    \/ singlePackageBuild /\ IsHookName(filename)

\* "<phase>.hook" with the package prefix stripped
StrippedName(pkgName, filename) ==
    IF HasPackagePrefix(pkgName, filename)
    THEN Tail_(filename, Len(pkgName) + 2)
    ELSE filename

\* filename was copied somewhere into tree
RoutedInto(tree, filename) ==
    \/ \E d \in DOMAIN tree.hooks : tree.hooks[d] = filename
    \/ \E d \in DOMAIN tree.universal : tree.universal[d] = filename

\* the hook loop of the current package has visited every file
HookLoopDone == pc = "hooks" /\ hookTodo = {}

\* C9 as stated: for each package, among the regular files of the recipe directory
\* named <name>-<phase>.hook (the prefix optional only in a single-package build), a
\* file whose name begins with a digit is copied under its full name into
\* universal-hooks, every other one is copied into hooks as <phase>.hook with the
\* package prefix stripped, and a file not so named is routed to no package.
C9_AsStated ==
    HookLoopDone =>
        LET pkgName == recipe.package_names[pkgIdx]
            single == Len(recipe.package_names) = 1
            tree == staged[pkgName]
        IN  \A filename \in HookCandidates :
                IF ~NamedForPackage(pkgName, single, filename)
                THEN ~RoutedInto(tree, filename)
                ELSE IF IsDigit(filename[1])
                THEN /\ filename \in DOMAIN tree.universal
                     /\ tree.universal[filename] = filename
                ELSE /\ StrippedName(pkgName, filename) \in DOMAIN tree.hooks
                     /\ \E other \in HookCandidates :
                           /\ NamedForPackage(pkgName, single, other)
                           /\ StrippedName(pkgName, other) = StrippedName(pkgName, filename)
                           /\ tree.hooks[StrippedName(pkgName, filename)] = other

\* C9 for package names made of letters only, where it holds
C9_PlainNames ==
    (\A k \in 1..Len(recipe.package_names[pkgIdx]) :
         ToLower(recipe.package_names[pkgIdx][k]) \in {LowerCase[j] : j \in 1..26})
    => C9_AsStated

(***************************************************************************)
(* C11, C12: exit status and cleanup.                                      *)
(***************************************************************************)

\* createPackage has returned to main
Returned == RunEnded /\ result \in {"ok", "failed"}

\* the recipe was opened and parsed
ParseSucceeded == ~InTrace(Step("unreadable", 0)) /\ ~InTrace(Step("refused", 0))

\* every source was resolved
ResolutionSucceeded ==
    \A k \in 1..Len(recipe.sources) :
        InTrace(Step("fetch", k)) /\ ~InTrace(Step("fetch_failed", k))

\* no executed global phase exited non-zero
PhasesSucceeded == ~InTrace(Step("nonzero", 0))

\* every declared package was assembled, post-processed and archived
PackagesSucceeded ==
    \A i \in 1..Len(recipe.package_names) :
        /\ InTrace(Step("assemble", i)) /\ ~InTrace(Step("nonzero", i))
        /\ InTrace(Step("post", i))
        /\ InTrace(Step("archive", i)) /\ ~InTrace(Step("archive_failed", i))

AllSucceeded ==
    ParseSucceeded /\ ResolutionSucceeded /\ PhasesSucceeded /\ PackagesSucceeded

MarkerInPlace ==
    resumeOnDisk = IF GlobalSteps = <<>> THEN loaded
                   ELSE Marker(GlobalSteps[Len(GlobalSteps)][1], 0)

\* C12: the cleanup pass runs only under --clean and only as the last step of a run
\* in which every package was archived; after a failing run the artifacts reported by
\* source resolution, the staging trees of the packages it staged and the resume
\* marker it had at the time of the failure are all still there.
C12_CleanupOnlyAfterSuccess ==
    /\ InTrace(Step("cleanup", 0)) =>
           /\ clean
           /\ trace[Len(trace)] = Step("cleanup", 0)
           /\ RunEnded /\ result = "ok"
           /\ \A i \in 1..Len(recipe.package_names) :
                  InTrace(Step("archive", i)) /\ ~InTrace(Step("archive_failed", i))
    /\ (Returned /\ result = "failed") =>
           /\ ~InTrace(Step("cleanup", 0))
           /\ \A k \in 1..Len(intermediatePaths) : Exists(fsys, Cwd, intermediatePaths[k])
           /\ \A i \in 1..Len(recipe.package_names) :
                  InTrace(Step("stage", i)) => recipe.package_names[i] \in DOMAIN staged
           /\ ~InTrace(Step("clear", 0)) => MarkerInPlace

\* under --clean the archive of the second package failed: the fetched source, both
\* staging trees and the archive of the first package are in place
C12_Witness ==
    /\ Returned /\ result = "failed"
    /\ clean
    /\ InTrace(Step("archive_failed", 2))
    /\ intermediatePaths # <<>>
    /\ \A k \in 1..Len(intermediatePaths) : Exists(fsys, Cwd, intermediatePaths[k])
    /\ DOMAIN staged = {PkgA, PkgB}
    /\ PkgA \in DOMAIN archives
(***************************************************************************)
(* The parser alone: createPackage from its call of parse_starbuild to the *)
(* point where the sources are about to be fetched, on a recipe text drawn *)
(* from small families of lines.                                           *)
(***************************************************************************)
\* a line from its words, one blank between two words
RECURSIVE Spaced(_)
Spaced(words) ==
    IF Len(words) <= 1 THEN words
    ELSE <<words[1], Blank>> \o Spaced(Tail(words))

Quoted(word) == <<Quote, word, Quote>>

ArrayKeys ==
    { <<"package_name">>, <<"package_descriptions">>, <<"dependencies_", "b">>,
      <<"dependencies">>, <<"build_dependencies">>, <<"clashes">>, <<"gives">>,
      <<"optional_dependencies">>, <<"sources">> }

\* "key = (" as recipes write it; the sources key is only recognised as "sources="
Opener(key) ==
    IF key = <<"sources">> THEN <<"sources", "=", "(">> ELSE key \o <<Blank, "=", Blank, "(">>

ItemLine == Quoted("a")
IndentedItems == <<Blank, Blank>> \o Quoted("b") \o <<Blank>> \o Quoted("c")
Closer == <<")">>
Complete(key) == Opener(key) \o <<Blank>> \o Quoted("d") \o <<Blank, ")">>

ArrayLines(key) == { Opener(key), ItemLine, IndentedItems, Closer, Complete(key) }

NameLine == Spaced(<<"package_name", "=">>) \o <<Blank>> \o Quoted("p")
VersionOne == Spaced(<<"package_version", "=">>) \o <<Blank>> \o Quoted("1")
VersionTwo == <<"package_version", "=">> \o Quoted("2")
VersionBare == Spaced(<<"package_version", "=", "3">>)
DescriptionOne == Spaced(<<"description", "=">>) \o <<Blank>> \o Quoted("x")
DescriptionTwo == <<Blank>> \o Spaced(<<"description", "=">>) \o <<Blank>> \o Quoted("y")

ScalarLines ==
    { NameLine, VersionOne, VersionTwo, VersionBare, DescriptionOne, DescriptionTwo }

\* symlink: "<text>"
SymlinkLine(text) == <<"symlink", ":", Blank, Quote>> \o text \o <<Quote>>

SymlinkTexts ==
    { <<"l", ":", "t">>, <<Blank, "l", Blank, ":", Blank, "t", Blank>>, <<"l", "t">>,
      <<":", "t">>, <<"l", ":", Blank>>, <<"l", ":", "t", ":", "u">> }

SymlinkLines ==
    { SymlinkLine(text) : text \in SymlinkTexts } \cup { <<"symlink", ":", "m", ":", "n">> }

BlockLines ==
    { <<"prepare", "(", ")", Blank, "{">>, <<"assemble", "(", ")", Blank, "{">>,
      <<"assemble_", "b", "(", ")", Blank, "{">>, <<"helper", "(", ")", Blank, "{">>,
      <<"}">>, <<Blank, "make">>, <<"sources", "=", "(", Blank>> \o Quoted("u"),
      NameLine, <<Blank>>, <<"#", "!", "sh">> }

\* the texts of at most MaxLines lines over pool
Texts(pool) == UNION { [1..n -> pool] : n \in 0..MaxLines }

\* headers of helper functions and of a reserved name, and the closing line
HelperLines ==
    { <<"helper", "(", ")", Blank, "{">>, <<"other", "(", ")", "{">>,
      <<"assemble_", "b", "(", ")", Blank, "{">>, <<"}">> }

\* texts long enough to hold two helper functions
HelperTexts == UNION { [1..n -> HelperLines] : n \in 0..(MaxLines + 1) }

Files ==
    UNION ({ Texts(ArrayLines(key)) : key \in ArrayKeys }
           \cup { Texts(ScalarLines), Texts(SymlinkLines), Texts(BlockLines), HelperTexts })

\* std::ifstream file(filepath), and the early return when it did not open
ParseOpen ==
    /\ pc = "parse"
    /\ ~ps.opened /\ ~ps.done
    /\ \E readable \in BOOLEAN :
          ps' = IF readable THEN [NotParsing EXCEPT !.opened = TRUE]
                ELSE [NotParsing EXCEPT !.done = TRUE]
    /\ UNCHANGED <<file, recipe, clean, noStripping, cwdIsSb, resumeOnDisk, fsys, staged, archives, pc,
                   skipping, currentState, srcIdx, intermediatePaths, pkgIdx, hookTodo,
                   trace, netOps, unpacked, loaded, executed, result, runNo, prev>>

\* the loop body, once
ParseStep ==
    /\ pc = "parse"
    /\ ps.opened /\ ~ps.done
    /\ ps.pos <= Len(file)
    /\ ps' = ParseLine(ps, file)
    /\ UNCHANGED <<file, recipe, clean, noStripping, cwdIsSb, resumeOnDisk, fsys, staged, archives, pc,
                   skipping, currentState, srcIdx, intermediatePaths, pkgIdx, hookTodo,
                   trace, netOps, unpacked, loaded, executed, result, runNo, prev>>

\* std::getline fails: the loop is left
ParseReturn ==
    /\ pc = "parse"
    /\ ps.opened /\ ~ps.done
    /\ ps.pos > Len(file)
    /\ ps' = ParseEnd(ps)
    /\ UNCHANGED <<file, recipe, clean, noStripping, cwdIsSb, resumeOnDisk, fsys, staged, archives, pc,
                   skipping, currentState, srcIdx, intermediatePaths, pkgIdx, hookTodo,
                   trace, netOps, unpacked, loaded, executed, result, runNo, prev>>

\* createPackage after parse_starbuild returned: where it goes next
AfterParse_IgnoresFailure(ok, names, srcs) ==
    IF srcs = <<>> THEN "prepare" ELSE "fetch"

AfterParse(ok, names, srcs) ==
    IF ~ok \/ names = <<>> THEN "idle"
    ELSE IF srcs = <<>> THEN "prepare" ELSE "fetch"

Parsed ==
    /\ pc = "parse"
    /\ ps.done
    /\ pc' = AfterParse(ps.ok, ps.package_names, ps.sources)
    /\ result' = IF pc' = "idle" THEN "failed" ELSE "running"
    /\ UNCHANGED <<parseVars, recipe, clean, noStripping, cwdIsSb, resumeOnDisk, fsys, staged, archives,
                   skipping, currentState, srcIdx, intermediatePaths, pkgIdx, hookTodo,
                   trace, netOps, unpacked, loaded, executed, runNo, prev>>

\* createPackage is called on a recipe file: its text is what the parser will read
StartParse ==
    /\ pc = "idle"
    /\ runNo = 0
    /\ file' \in Files
    /\ pc' = "parse"
    /\ result' = "running"
    /\ runNo' = 1
    /\ UNCHANGED <<ps, recipe, clean, noStripping, cwdIsSb, resumeOnDisk, fsys, staged, archives,
                   skipping, currentState, srcIdx, intermediatePaths, pkgIdx, hookTodo,
                   trace, netOps, unpacked, loaded, executed, prev>>

InitParse ==
    /\ recipe = FetchRecipe(<<>>)
    /\ clean = FALSE
    /\ cwdIsSb = TRUE
    /\ resumeOnDisk = NoFile
    /\ fsys = RecipeDir
    /\ InitProcess
    /\ noStripping = FALSE

NextParse ==
    \/ StartParse
    \/ ParseOpen
    \/ ParseStep
    \/ ParseReturn
    \/ Parsed

SpecParse == InitParse /\ [][NextParse]_vars

\* the loop has a line to read
InLoop == pc = "parse" /\ ps.opened /\ ~ps.done /\ ps.pos <= Len(file)

\* the parser is a sequential program: a step that can be taken is taken.  The weak
\* fairness of ParseStep is written out, InLoop being what enables it
SpecParseRuns ==
    /\ SpecParse
    /\ WF_vars(StartParse \/ ParseOpen \/ ParseReturn \/ Parsed)
    /\ ([]<>(~InLoop) \/ []<><<ParseStep>>_vars)

\* parse_starbuild on a whole readable text
RECURSIVE ParseFrom(_, _)
ParseFrom(st, f) ==
    IF st.pos <= Len(f) THEN ParseFrom(ParseLine(st, f), f) ELSE ParseEnd(st)

ParseAll(f) == ParseFrom([NotParsing EXCEPT !.opened = TRUE], f)

ParsedOk == ps.done /\ ps.ok
\* the lines of f, trimmed, written on one line
RECURSIVE Joined(_)
Joined(f) ==
    IF Len(f) = 0 THEN <<>>
    ELSE IF Len(f) = 1 THEN Trim(f[1])
    ELSE Trim(f[1]) \o <<Blank>> \o Joined(Tail(f))

OneLine(f) == <<Joined(f)>>

\* f is one array of key whose body is split over its lines: it opens on the first
\* line, and its only ")" ends the last line
IsSplit(f, key) ==
    /\ Len(f) >= 2
    /\ StartsWith(Trim(f[1]), Opener(key))
    /\ \A i \in 1..(Len(f) - 1) : Find(f[i], <<")">>) = 0
    /\ Find(f[Len(f)], <<")">>) = Len(f[Len(f)])

\* the RecipeModel's sequence for key
Yield(st, key) ==
    IF key = <<"package_name">> THEN st.package_names
    ELSE IF key = <<"package_descriptions">> THEN st.package_descriptions
    ELSE IF key = <<"dependencies">> THEN st.dependencies
    ELSE IF key = <<"build_dependencies">> THEN st.build_dependencies
    ELSE IF key = <<"clashes">> THEN st.clashes
    ELSE IF key = <<"gives">> THEN st.gives
    ELSE IF key = <<"optional_dependencies">> THEN st.optional_dependencies
    ELSE IF key = <<"sources">> THEN st.sources
    ELSE IF Tail(key) \in DOMAIN st.subpackageDependencies
    THEN st.subpackageDependencies[Tail(key)]
    ELSE <<>>

SameAsOneLine(key) ==
    ParsedOk /\ IsSplit(file, key) => Yield(ps, key) = Yield(ParseAll(OneLine(file)), key)

\* C13: for every array-valued key, an array split over two or more lines yields the
\* same sequence of quoted strings as the same array written on one line
C13_AsStated == \A key \in ArrayKeys : SameAsOneLine(key)
\* the keys whose rule reads on until ")"
MultiLineKeys == { <<"package_descriptions">>, <<"dependencies_", "b">>, <<"sources">> }

\* for the keys read by the multi-line rule the split array and the one-line array agree
C13_MultiLineKeys == \A key \in MultiLineKeys : SameAsOneLine(key)
\* no line of f opens a block, a helper function or an array: every line is at top level
AllTopLevel(f) ==
    \A i \in 1..Len(f) :
        /\ Find(f[i], <<"(">>) = 0
        /\ Find(f[i], <<"{">>) = 0

\* the lines of f that are a well-formed assignment key = "X"
Occurrences(f, key) == { i \in 1..Len(f) : MatchScalar(Trim(f[i]), key).hit }

Last(S) == CHOOSE i \in S : \A j \in S : j <= i

\* the RecipeModel holds for key the X of the last occurrence, when there is one
HoldsLast(st, f, key, held) ==
    Occurrences(f, key) # {} =>
        held = MatchScalar(Trim(f[Last(Occurrences(f, key))]), key).group

\* C14: when package_version = "X" or description = "X" appears several times at top
\* level, the RecipeModel holds the value of the last occurrence, whatever the earlier
\* occurrences were
C14_LastOccurrenceWins ==
    ParsedOk /\ AllTopLevel(file) =>
        /\ HoldsLast(ps, file, "package_version", ps.package_version)
        /\ HoldsLast(ps, file, "description", ps.description)

\* a text was parsed whose last version differs from an earlier one
C14_Witness ==
    /\ ParsedOk
    /\ AllTopLevel(file)
    /\ \E i, j \in Occurrences(file, "package_version") :
          /\ i < j
          /\ j = Last(Occurrences(file, "package_version"))
          /\ MatchScalar(Trim(file[i]), "package_version").group = <<"2">>
          /\ ps.package_version = <<"1">>
\* what the line symlink: "text" is to append: text is a:b, cut at its first colon
PairsOfText(text) ==
    LET colon == Find(text, <<":">>)
        a == SubSeq(text, 1, colon - 1)
        b == Tail_(text, colon + 1)
    IN  IF colon # 0 /\ Trim(a) # <<>> /\ Trim(b) # <<>>
        THEN << <<Trim(a), Trim(b)>> >>
        ELSE <<>>

AtTopLevel(st) == ~st.in_custom /\ ~InBlock(st)

\* the step that reads the top-level line symlink: "text" appends PairsOfText(text) and
\* goes on to the next line
ReadsSymlink(text) ==
    ParseStep /\ AtTopLevel(ps) /\ file[ps.pos] = SymlinkLine(text) =>
        /\ ps'.symlinkPairs = ps.symlinkPairs \o PairsOfText(text)
        /\ ps'.pos = ps.pos + 1
        /\ ~ps'.done

NonEmptySides ==
    \A i \in 1..Len(ps.symlinkPairs) :
        ps.symlinkPairs[i][1] # <<>> /\ ps.symlinkPairs[i][2] # <<>>

\* C15: a top-level line symlink: "a:b" with non-empty a and b appends exactly the
\* pair (trim(a), trim(b)); a symlink line with no colon or with an empty or blank side
\* appends nothing and is no error; every entry of symlink_pairs is non-empty on both
\* sides at any time
C15_SymlinkLines ==
    /\ []NonEmptySides
    /\ [][\A text \in SymlinkTexts : ReadsSymlink(text)]_vars

\* a parse that read a pair with blanks around its sides and a line without a colon
C15_Witness ==
    /\ ParsedOk
    /\ file = << SymlinkLine(<<"l", "t">>),
                 SymlinkLine(<<Blank, "l", Blank, ":", Blank, "t", Blank>>),
                 SymlinkLine(<<"l", ":", Blank>>) >>
    /\ ps.symlinkPairs = << << <<"l">>, <<"t">> >> >>
\* the parse of a readable text ends, at the end of the text, with success
ReachesEnd == ps.opened ~> (ParsedOk /\ ps.pos = Len(file) + 1)

\* parsing fails exactly when the file could not be opened
FailsOnlyUnopened == ps.done => (ps.ok <=> ps.opened)

\* after a failed parse createPackage has returned or is about to: no fetch, phase or
\* script was or will be started
NothingRunsAfterFailure ==
    ps.done /\ ~ps.ok =>
        /\ pc \in {"parse", "idle"}
        /\ trace = <<>> /\ netOps = <<>> /\ unpacked = <<>>
        /\ fsys = RecipeDir /\ staged = <<>> /\ archives = <<>>

\* C16: every readable recipe text, whatever its lines (unrecognized lines, unterminated
\* arrays, unterminated or nested blocks), is parsed to the end of input with success;
\* only a file that cannot be opened makes parsing fail, and then no phase, fetch or
\* script runs
C16_LenientParsing ==
    /\ ReachesEnd
    /\ []FailsOnlyUnopened
    /\ []NothingRunsAfterFailure

\* a parse that ended with success inside a helper function opened inside a phase block
C16_Witness == ParsedOk /\ ps.in_prepare /\ ps.in_custom /\ ps.pos = Len(file) + 1
\* the operations of a run: fetches, phase scripts, assemble scripts and archivals
IsOperation(s) == s[1] \in {"fetch", "prepare", "compile", "verify", "assemble", "archive"}

Operations == SelectSeq(trace, IsOperation)

\* the place of an operation in the order fetches (by position), prepare, compile,
\* verify, then per package assemble and archive
Rank(s) ==
    CASE s[1] = "fetch" -> <<1, s[2], 0>>
      [] s[1] = "prepare" -> <<2, 0, 0>>
      [] s[1] = "compile" -> <<3, 0, 0>>
      [] s[1] = "verify" -> <<4, 0, 0>>
      [] s[1] = "assemble" -> <<5, s[2], 1>>
      [] s[1] = "archive" -> <<5, s[2], 2>>

Earlier(r, q) ==
    \/ r[1] < q[1]
    \/ r[1] = q[1] /\ r[2] < q[2]
    \/ r[1] = q[1] /\ r[2] = q[2] /\ r[3] < q[3]

\* the operations of the run so far are in order, none of them twice
InOrderOnce ==
    \A i, j \in 1..Len(Operations) :
        i < j => Earlier(Rank(Operations[i]), Rank(Operations[j]))

\* at most one clone or download per source
OneTransferPerSource ==
    \A i, j \in 1..Len(netOps) : i < j => netOps[i][1] < netOps[j][1]

\* nothing follows a parse that failed
ParseFirst ==
    \A k \in 1..Len(trace) : trace[k][1] \in {"unreadable", "refused"} => Len(trace) = 1

IsFetchStep(s) == s[1] = "fetch"

\* fetchSources was called and has returned: the sources were fetched one after the
\* other, all of them or up to the one that failed
ResolvedOnce ==
    LET fetched == SelectSeq(trace, IsFetchStep)
        n == IF \E k \in 1..Len(recipe.sources) : InTrace(Step("fetch_failed", k))
             THEN CHOOSE k \in 1..Len(recipe.sources) : InTrace(Step("fetch_failed", k))
             ELSE Len(recipe.sources)
    IN  fetched = [k \in 1..n |-> Step("fetch", k)]

\* a run that parsed and, not killed, has left source resolution behind
PastResolution == runNo > 0 /\ ParseSucceeded /\ pc # "fetch" /\ result # "crashed"

\* C17 as stated: the operations of every run occur in the order parse, resolution,
\* prepare, compile, verify, then per package assemble and archive, each at most once,
\* and every run that parses successfully resolves the sources exactly once
C17_AsStated ==
    /\ InOrderOnce /\ OneTransferPerSource /\ ParseFirst
    /\ PastResolution => ResolvedOnce

\* C17: the operations of every run occur in the order parse, resolution, prepare,
\* compile, verify, then per package assemble and archive, each at most once, and every
\* run that parses successfully and declares a package resolves the sources exactly
\* once, resumed runs included
C17_RunOrdering ==
    /\ InOrderOnce /\ OneTransferPerSource /\ ParseFirst
    /\ PastResolution /\ recipe.package_names # <<>> => ResolvedOnce

\* a resumed run that fetched its source, ran the phase it resumed at and assembled
\* and archived two packages
C17_Witness ==
    /\ RunEnded
    /\ loaded # NoFile /\ loaded.phase = "verify"
    /\ Operations = <<Step("fetch", 1), Step("verify", 0),
                      Step("assemble", 1), Step("archive", 1),
                      Step("assemble", 2), Step("archive", 2)>>
(***************************************************************************)
(* fetchSources on descriptors of every class, among them URLs that hold   *)
(* "::" after their "://", in working directories where the local source's *)
(* name is free or taken by another file.                                  *)
(***************************************************************************)
SrcMissing == <<"m">>
SrcUrlNoName == UrlBase
SrcUrlDoubleColon == UrlBase \o <<"a">> \o DoubleColon \o <<"b">>
SrcUrlDoubleColonUrl == UrlBase \o <<"a">> \o DoubleColon \o UrlSrc

ClassPool ==
    {SrcGit, SrcCustom, BadCustomSrc, UrlSrc, SrcUrlNoName, SrcUrlDoubleColon,
     SrcUrlDoubleColonUrl, LocalSrc, SrcMissing}

ClassLists == UNION { [1..n -> ClassPool] : n \in 1..MaxSources }

\* the working directory before the call: empty, or holding a plain file under the
\* name of the local source, which is an archive in the recipe directory
ClassDirs(cwd) == { LocalSources, Put(LocalSources, <<cwd, LocalSrc>>, "plain") }

InitClassify ==
    /\ recipe \in { FetchRecipe(srcs) : srcs \in ClassLists }
    /\ clean = FALSE
    /\ cwdIsSb \in BOOLEAN
    /\ resumeOnDisk = NoFile
    /\ fsys \in ClassDirs(Cwd)
    /\ InitProcess
    /\ noStripping = FALSE

SpecClassify == InitClassify /\ [][NextFetch]_vars

\* the class the rules give a descriptor, taken in order: git+ prefix; "::" before any
\* "://"; "://"; otherwise a local path
ClassOf(src) ==
    IF StartsWith(src, GitPlus) THEN "git"
    ELSE IF Find(src, DoubleColon) # 0
            /\ (Find(src, SchemeSep) = 0 \/ Find(src, DoubleColon) < Find(src, SchemeSep))
    THEN "custom"
    ELSE IF Find(src, SchemeSep) # 0 THEN "url"
    ELSE "local"

\* what resolving src as a member of its class can do
ClassOutcomes(f, src) ==
    CASE ClassOf(src) = "git" -> GitOutcomes(f, src)
      [] ClassOf(src) = "custom" -> CustomOutcomes(f, src)
      [] ClassOf(src) = "url" -> UrlOutcomes(f, src)
      [] ClassOf(src) = "local" -> LocalOutcomes(f, src)

\* the step taken is one of the outcomes o
TakenFrom(outcomes) ==
    \E o \in outcomes :
        /\ fsys' = o.fs
        /\ intermediatePaths' = intermediatePaths \o o.pushed
        /\ netOps' = netOps \o [k \in 1..Len(o.net) |-> <<srcIdx, o.net[k]>>]
        /\ o.ok <=> ~(trace'[Len(trace')] = Step("fetch_failed", srcIdx))

\* C18: each descriptor is resolved as the first rule that applies says: git+ prefix a
\* git source; "::" before any "://" a custom-name source whose right side must hold
\* "://"; "://" a URL source named by its final path segment or source.tar; anything
\* else a path in the recipe directory.  A descriptor whose only "::" follows its "://"
\* is a URL source
C18_AsStated ==
    [][FetchStep => TakenFrom(ClassOutcomes(fsys, recipe.sources[srcIdx]))]_vars

\* the "::" of the descriptor, if any, precedes its "://", if any
ColonsFirst(src) ==
    Find(src, DoubleColon) # 0 /\ Find(src, SchemeSep) # 0
        => Find(src, DoubleColon) < Find(src, SchemeSep)

\* for descriptors without "::" after "://" the classification is as the rules say
C18_ColonsFirst ==
    [][FetchStep /\ ColonsFirst(recipe.sources[srcIdx])
          => TakenFrom(ClassOutcomes(fsys, recipe.sources[srcIdx]))]_vars
\* the descriptor reaches the local-path branch
IsLocal(src) == ~StartsWith(src, GitPlus) /\ ~IsCustom(src) /\ ~IsRemote(src)

\* the step about to be taken failed
StepFailed == trace'[Len(trace')] = Step("fetch_failed", srcIdx)

\* after the step the working directory holds, under the source's base name, the file
\* of the recipe directory
CopiedOver(src) ==
    /\ Exists(fsys', Cwd, LocalFilename(src))
    /\ fsys'[<<Cwd, LocalFilename(src)>>] = fsys[<<"sb", src>>]

\* what C19 says of the step that resolves the local source src
LocalStepCopies(src) ==
    IF Exists(fsys, "sb", src)
    THEN CopiedOver(src)
    ELSE StepFailed /\ fsys' = fsys

\* C19: resolving a local source that exists in the recipe directory leaves its content
\* in the working directory under its base name, also when another file of that name
\* was there before; resolving one that is absent fails
C19_AsStated ==
    [][FetchStep /\ IsLocal(recipe.sources[srcIdx])
          => LocalStepCopies(recipe.sources[srcIdx])]_vars

\* the base name of src is free in the working directory, or the working directory is
\* the recipe directory
NameFree(src) == Cwd = "sb" \/ ~Exists(fsys, Cwd, LocalFilename(src))

\* when the name is free the copy is made, and an absent source fails the fetch
C19_FreeName ==
    [][FetchStep /\ IsLocal(recipe.sources[srcIdx]) /\ NameFree(recipe.sources[srcIdx])
          => LocalStepCopies(recipe.sources[srcIdx])]_vars
\* the run has ended with a failure in the assemble or archival step of a package
PackageFailure ==
    /\ RunEnded /\ result = "failed"
    /\ \E i \in 1..Len(recipe.package_names) :
          InTrace(Step("nonzero", i)) \/ InTrace(Step("archive_failed", i))

\* a run that found no resume file
FreshRun == runNo > 0 /\ loaded = NoFile /\ ParseSucceeded

\* the global phases of the run so far are prepare, compile, verify from the first on,
\* all three once the package loop is entered, and the packages are assembled from the
\* first on, all of them when the run succeeds
FromTheStart ==
    /\ \A k \in 1..Len(GlobalSteps) : GlobalSteps[k] = Step(<<"prepare", "compile", "verify">>[k], 0)
    /\ (\E k \in 1..Len(trace) : InPackageLoop(trace[k])) => Len(GlobalSteps) = 3
    /\ \A k \in 1..Len(AssembleSteps) : AssembleSteps[k] = Step("assemble", k)
    /\ (RunEnded /\ result = "ok") => Len(AssembleSteps) = Len(recipe.package_names)

HooksOf(tree) == <<tree.hooks, tree.universal>>

\* the step about to be taken copies a hook file into a staged tree
CopiesHook ==
    \E name \in DOMAIN staged :
        name \in DOMAIN staged' /\ HooksOf(staged'[name]) # HooksOf(staged[name])

\* the assemble script of package i has finished with success
Assembled(i) == InTrace(Step("assemble", i)) /\ ~InTrace(Step("nonzero", i))

\* C21: for each package the steps are staging, assemble script, hook routing,
\* metadata, archival: no hook file is copied into the staged tree before the package's
\* assemble script has finished, and a package whose assemble script fails has no
\* hooks staged by that run
C21_AsStated ==
    /\ [][CopiesHook => Assembled(pkgIdx)]_vars
    /\ [](\A i \in 1..Len(recipe.package_names) :
             runNo = 1 /\ InTrace(Step("nonzero", i))
                 => HooksOf(staged[recipe.package_names[i]]) = HooksOf(EmptyTree))

\* the order of the code: hooks are copied after staging and before the assemble
\* script of the package is started
C21_HooksBeforeAssemble ==
    [][CopiesHook => /\ trace[Len(trace)] = Step("stage", pkgIdx)
                     /\ ~InTrace(Step("assemble", pkgIdx))]_vars
(***************************************************************************)
(* packageStarpack on its own: one staged tree ("pkg") is packaged several *)
(* times with the same symlink pairs.  A symbolic link is kept as "link"   *)
(* when its target resolves on the build host and as "dangling" when it    *)
(* does not; std::filesystem::exists follows links, so it reports a        *)
(* dangling link as absent.                                                *)
(***************************************************************************)
LinkL == <<"l">>
LinkM == <<"m">>
TargetT == <<"t">>
TargetU == <<"u">>

PairPool == { <<LinkL, TargetT>>, <<LinkL, TargetU>>, <<LinkM, TargetU>> }

PairLists == UNION { [1..n -> PairPool] : n \in 0..MaxLinks }

\* fs::exists(linkPath)
LinkPathExists(f, linkPath) ==
    Exists(f, "pkg", linkPath) /\ f[<<"pkg", linkPath>>] # "dangling"

\* the link create_symlink(target, linkPath) leaves
NewLink(f, target) == IF Exists(f, "host", target) THEN "link" ELSE "dangling"

\* the loop over symlinkPairs from pair k on: whether it went through, and the tree
RECURSIVE CreateSymlinks(_, _, _)
CreateSymlinks(f, pairs, k) ==
    IF k > Len(pairs) THEN [ok |-> TRUE, fs |-> f]
    ELSE IF LinkPathExists(f, pairs[k][1]) THEN CreateSymlinks(f, pairs, k + 1)
    ELSE IF Exists(f, "pkg", pairs[k][1]) THEN [ok |-> FALSE, fs |-> f]
    ELSE CreateSymlinks(WithEntry(f, "pkg", pairs[k][1], NewLink(f, pairs[k][2])),
                        pairs, k + 1)

\* packageStarpack: metadata.yaml, the symlinks, tar and zstd
PackageStarpack ==
    /\ pc = "idle"
    /\ runNo < MaxRuns
    /\ runNo' = runNo + 1
    /\ \E how \in {"ok", "metadata", "tar"} :
          LET made == CreateSymlinks(fsys, recipe.symlinkPairs, 1)
          IN  IF how = "metadata"
              THEN /\ trace' = <<Step("metadata_failed", 0)>>
                   /\ result' = "failed"
                   /\ UNCHANGED fsys
              ELSE /\ fsys' = made.fs
                   /\ trace' = IF ~made.ok THEN <<Step("symlink_failed", 0)>>
                               ELSE IF how = "tar" THEN <<Step("archive_failed", 0)>>
                               ELSE <<Step("archive", 0)>>
                   /\ result' = IF made.ok /\ how = "ok" THEN "ok" ELSE "failed"
    /\ UNCHANGED <<parseVars, recipe, prev, clean, noStripping, cwdIsSb, resumeOnDisk, staged, archives, pc,
                   skipping, currentState, srcIdx, intermediatePaths, pkgIdx, hookTodo,
                   netOps, unpacked, loaded, executed>>

\* what can occupy a link path before the first packaging
Occupants == {"none", "plain", "dir", "link", "dangling"}

\* the staged tree with l occupied by occ, and the build host with or without t
LinkDirs ==
    { [p \in (IF occ = "none" THEN {} ELSE {<<"pkg", LinkL>>})
             \cup (IF host THEN {<<"host", TargetT>>} ELSE {}) |->
          IF p[1] = "pkg" THEN occ ELSE "plain"] : occ \in Occupants, host \in BOOLEAN }

InitLinks ==
    /\ recipe \in { [FetchRecipe(<<>>) EXCEPT !.symlinkPairs = pairs] : pairs \in PairLists }
    /\ clean = FALSE
    /\ cwdIsSb = TRUE
    /\ resumeOnDisk = NoFile
    /\ fsys \in LinkDirs
    /\ InitProcess
    /\ noStripping = FALSE

NextLinks == PackageStarpack

SpecLinks == InitLinks /\ [][NextLinks]_vars

\* some pair's link path is occupied in the staged tree
SomeOccupied ==
    \E k \in 1..Len(recipe.symlinkPairs) : Exists(fsys, "pkg", recipe.symlinkPairs[k][1])

\* C22: when a file, directory or symbolic link, dangling links included, occupies a
\* link path in the staged tree, link creation is skipped and packaging goes on: no
\* packaging fails in the symlink loop, and the same staged tree is packaged twice
\* without a symlink failure
C22_AsStated == ~(trace = <<Step("symlink_failed", 0)>>)

\* links occupied by files, directories and links that resolve are skipped
C22_ResolvingOccupants ==
    [][(/\ PackageStarpack
        /\ \A k \in 1..Len(recipe.symlinkPairs) :
              Exists(fsys, "pkg", recipe.symlinkPairs[k][1])
                  => LinkPathExists(fsys, recipe.symlinkPairs[k][1])
        /\ \A j \in 1..Len(recipe.symlinkPairs) :
              Exists(fsys, "host", recipe.symlinkPairs[j][2]))
         => trace' # <<Step("symlink_failed", 0)>>]_vars
\* the bodies the current run gave the assemble step of package i
ExecutedFor(i) ==
    LET OfPackage(e) == e[1] = i
        picked == SelectSeq(executed, OfPackage)
    IN  [k \in 1..Len(picked) |-> picked[k][2]]

\* C23: the script run for a package is assemble_functions[name] when the recipe
\* declared assemble_<name>(), otherwise the generic assemble() body when it is not
\* empty, otherwise nothing is run and the step succeeds: one of the three per
\* assembled package, and never the generic body for a package with its own override
C23_ScriptSelection ==
    \A i \in 1..Len(recipe.package_names) :
        LET name == recipe.package_names[i]
        IN  IF ~InTrace(Step("assemble", i)) THEN ExecutedFor(i) = <<>>
            ELSE IF name \in DOMAIN recipe.assemble_functions
            THEN ExecutedFor(i) = <<recipe.assemble_functions[name]>>
            ELSE IF recipe.generic_assemble_function # ""
            THEN ExecutedFor(i) = <<recipe.generic_assemble_function>>
            ELSE ExecutedFor(i) = <<>> /\ ~InTrace(Step("nonzero", i))

\* package a got the generic body and package b its own, empty, override
C23_Witness ==
    /\ recipe.package_names = <<PkgA, PkgB>>
    /\ recipe.generic_assemble_function = "A"
    /\ executed = << <<1, "A">>, <<2, "">> >>
    /\ result = "ok"
\* the bodies the parser captures, in the order the loop serves them
Captures ==
    <<"in_custom", "in_prepare", "in_compile", "in_verify", "in_generic_assemble",
      "in_specific_assemble">>

\* the loop reads a line that is "}" once trimmed
ReadsBrace == ParseStep /\ Trim(file[ps.pos]) = <<"}">>

\* no capture is open: lines are processed as top-level lines
TopLevel(st) == ~st.in_custom /\ ~InBlock(st)

Streams ==
    <<"custom_stream", "prepare_stream", "compile_stream", "verify_stream",
      "generic_assemble_stream", "specific_assemble_stream">>

\* capture k is the only one open
OnlyOpen(st, k) == st[Captures[k]] /\ \A j \in 1..Len(Captures) : j # k => ~st[Captures[j]]

\* the line the loop reads is blank or a comment
ReadsBlankOrComment ==
    ParseStep /\ (Trim(file[ps.pos]) = <<>> \/ Trim(file[ps.pos])[1] = "#")

\* C25: every line between the header of a phase or custom function and its
\* terminating "}" line, blank lines and lines starting with "#" included, is
\* appended unchanged to that body; the custom function text also holds its header
\* and its closing line
C25_AsStated ==
    [][/\ \A k \in 1..Len(Captures) :
             (ParseStep /\ OnlyOpen(ps, k) /\ ~ReadsBrace)
                 => ps'[Streams[k]] = Append(ps[Streams[k]], file[ps.pos])
       /\ (ParseStep /\ ps.in_custom /\ ReadsBrace)
             => ps'.customFunctions
                   = Append(ps.customFunctions, Append(ps.custom_stream, file[ps.pos]))
       /\ (ParseStep /\ TopLevel(ps) /\ ps'.in_custom)
             => ps'.custom_stream = <<file[ps.pos]>>]_vars

\* a blank line or a comment line changes no body and closes none
C25_CommentsDropped ==
    [][ReadsBlankOrComment => ps' = [ps EXCEPT !.pos = @ + 1]]_vars

\* inside a custom function every other line is appended unchanged
C25_CustomLinesKept ==
    [][(ParseStep /\ ps.in_custom /\ ~ReadsBlankOrComment)
          => ps'.custom_stream = Append(ps.custom_stream, file[ps.pos])]_vars
\* the name of the header `name() {` the loop reads, <<>> when the line is no header
HeaderRead == IF ParseStep THEN AnyFuncName(Trim(file[ps.pos])) ELSE <<>>

\* prepare, compile, verify, assemble and the names starting with assemble_
Reserved(name) ==
    \/ name \in {<<"prepare">>, <<"compile">>, <<"verify">>, <<"assemble">>}
    \/ name[1] = "assemble_"

\* the step opens a custom capture with the line it reads
OpensCapture ==
    ParseStep /\ ~ps.in_custom /\ ps'.in_custom /\ ps'.custom_stream = <<file[ps.pos]>>

\* the header of a stored helper function
HeaderOf(fn) == AnyFuncName(Trim(fn[1]))

\* C26: a line `name() {` opens a custom capture exactly when none is open and name
\* is none of prepare, compile, verify, assemble and does not start with assemble_;
\* each completed capture appends one entry to customFunctions, nothing else changes
\* that list, and no entry has a reserved name
C26_CustomRecognition ==
    /\ [][(ParseStep /\ HeaderRead # <<>>)
             => (OpensCapture <=> (~ps.in_custom /\ ~Reserved(HeaderRead)))]_vars
    /\ [][ParseStep =>
             IF ps.in_custom /\ ~ps'.in_custom
             THEN /\ Len(ps'.customFunctions) = Len(ps.customFunctions) + 1
                  /\ SubSeq(ps'.customFunctions, 1, Len(ps.customFunctions))
                        = ps.customFunctions
                  /\ ps'.customFunctions[Len(ps'.customFunctions)][1] = ps.custom_stream[1]
             ELSE ps'.customFunctions = ps.customFunctions]_vars
    /\ [](\A k \in 1..Len(ps.customFunctions) :
             HeaderOf(ps.customFunctions[k]) # <<>>
                 /\ ~Reserved(HeaderOf(ps.customFunctions[k])))

\* two helper functions were captured, in the order of the recipe
C26_Witness ==
    /\ ps.done
    /\ Len(file) = 4
    /\ ps.customFunctions = << <<file[1], <<"}">> >>, <<file[3], <<"}">> >> >>
    /\ HeaderOf(ps.customFunctions[1]) = <<"helper">>
    /\ HeaderOf(ps.customFunctions[2]) = <<"other">>
\* the keys whose arrays accumulate
AccumulatedKeys ==
    { <<"dependencies">>, <<"build_dependencies">>, <<"clashes">>, <<"gives">>,
      <<"optional_dependencies">>, <<"dependencies_", "b">>, <<"package_name">> }

\* the line of f at or after i that closes the array opened on line i
ClosedAt(f, i) ==
    LET closing == { j \in i..Len(f) : Find(f[j], <<")">>) # 0 }
    IN  IF closing = {} THEN Len(f) ELSE CHOOSE j \in closing : \A k \in closing : j <= k

\* the arrays assigned to key in f from line i on, concatenated in recipe order: an
\* assignment opens with "key = (" and runs to the line holding its ")"
RECURSIVE Assigned(_, _, _)
Assigned(f, key, i) ==
    IF i > Len(f) THEN <<>>
    ELSE IF StartsWith(Trim(f[i]), Opener(key))
    THEN extract_quoted_strings(Joined(SubSeq(f, i, ClosedAt(f, i))))
             \o Assigned(f, key, ClosedAt(f, i) + 1)
    ELSE Assigned(f, key, i + 1)

\* every assignment of key in f is written on one line
OnOneLine(f, key) ==
    \A i \in 1..Len(f) : StartsWith(Trim(f[i]), Opener(key)) => Find(f[i], <<")">>) # 0

\* C27: for dependencies, build_dependencies, clashes, gives, optional_dependencies,
\* dependencies_<pkg> and package_name, k assignments at top level leave the
\* concatenation of the k arrays in recipe order
C27_AsStated ==
    \A key \in AccumulatedKeys :
        (ParsedOk /\ file \in Texts(ArrayLines(key))) => Yield(ps, key) = Assigned(file, key, 1)

\* the arrays written on one line accumulate, and so do all the arrays of
\* dependencies_<pkg>
C27_OneLineArrays ==
    \A key \in AccumulatedKeys :
        (/\ ParsedOk
         /\ file \in Texts(ArrayLines(key))
         /\ OnOneLine(file, key) \/ key = <<"dependencies_", "b">>)
            => Yield(ps, key) = Assigned(file, key, 1)
\* the entries of fn whose key is a declared package name
DeclaredOnly(fn) ==
    [key \in { k \in DOMAIN fn : \E i \in 1..Len(recipe.package_names) :
                                    recipe.package_names[i] = k } |-> fn[key]]

\* the recipe declares a dependencies_<x> array and an assemble_<x>() block for names
\* that are no package of it
HasUnknownKeys ==
    /\ DeclaredOnly(recipe.subpackageDependencies) # recipe.subpackageDependencies
    /\ DeclaredOnly(recipe.assemble_functions) # recipe.assemble_functions

\* package i was archived by the current run
Archived(i) == InTrace(Step("archive", i)) /\ ~InTrace(Step("archive_failed", i))

\* C28: a dependencies_<x> array or an assemble_<x>() block whose x is no declared
\* package is accepted and changes nothing: the scripts run and the metadata written
\* for every declared package are those of the recipe without these entries
C28_UnknownKeysInert ==
    \A i \in 1..Len(recipe.package_names) :
        LET name == recipe.package_names[i]
            deps == DeclaredOnly(recipe.subpackageDependencies)
            fns == DeclaredOnly(recipe.assemble_functions)
        IN  /\ InTrace(Step("assemble", i)) =>
                  ExecutedFor(i) = IF name \in DOMAIN fns THEN <<fns[name]>>
                                   ELSE IF recipe.generic_assemble_function # ""
                                   THEN <<recipe.generic_assemble_function>>
                                   ELSE <<>>
            /\ Archived(i) =>
                  archives[name] =
                      << [name |-> name,
                          version |-> recipe.package_version,
                          description |-> PkgDesc(i),
                          dependencies |-> recipe.dependencies
                              \o (IF name \in DOMAIN deps THEN deps[name] ELSE <<>>),
                          clashes |-> recipe.clashes,
                          gives |-> recipe.gives,
                          optional_dependencies |-> recipe.optional_dependencies] >>

\* a recipe with unknown keys of both kinds was packaged: package a has the global
\* dependencies and its own, and the generic assemble() body was run for it
C28_Witness ==
    /\ HasUnknownKeys
    /\ result = "ok"
    /\ recipe.package_names = <<PkgA>>
    /\ Archived(1)
    /\ archives[PkgA][1].dependencies = <<"libc", "libc", "z">>
    /\ executed = << <<1, "A">> >>
\* C29: the metadata archived for the package at 0-based index i holds
\* package_descriptions[i] when i is smaller than the number of descriptions and the
\* global description otherwise, the package's name and the shared package_version
C29_DescriptionFallback ==
    \A i \in 1..Len(recipe.package_names) :
        Archived(i) =>
            LET written == archives[recipe.package_names[i]][1]
            IN  /\ written.description =
                       IF i - 1 < Len(recipe.package_descriptions)
                       THEN recipe.package_descriptions[i]
                       ELSE recipe.description
                /\ written.name = recipe.package_names[i]
                /\ written.version = recipe.package_version

\* one description for two packages: the first has its own, the second the global one
C29_Witness ==
    /\ Len(recipe.package_names) = 2
    /\ Len(recipe.package_descriptions) = 1
    /\ Archived(1) /\ Archived(2)
    /\ archives[recipe.package_names[1]][1].description = "da"
    /\ archives[recipe.package_names[2]][1].description = "d"
    /\ archives[recipe.package_names[2]][1].version = archives[recipe.package_names[1]][1].version
\* C30: a recipe without a package name is rejected before any side effect: the run
\* has failed without fetching a source or running a script, and the resume marker,
\* the files, the staged trees and the archives are what they were
C30_NoPackageRejected ==
    /\ [](runNo > 0 /\ recipe.package_names = <<>> =>
             /\ pc = "idle" /\ result = "failed"
             /\ netOps = <<>> /\ unpacked = <<>> /\ executed = <<>>
             /\ intermediatePaths = <<>>
             /\ \A k \in 1..Len(trace) : trace[k][1] \in {"unreadable", "refused"}
             /\ resumeOnDisk = loaded)
    /\ [][recipe.package_names = <<>> =>
             /\ resumeOnDisk' = resumeOnDisk
             /\ fsys' = fsys /\ staged' = staged /\ archives' = archives]_vars

\* a recipe with sources and a prepare body but no package name was parsed, with a
\* resume marker on disk: the run failed at once and the marker is still there
C30_Witness ==
    /\ runNo > 0
    /\ recipe.package_names = <<>>
    /\ recipe.sources # <<>>
    /\ recipe.prepare_function # ""
    /\ ParseSucceeded
    /\ trace = <<>>
    /\ result = "failed"
    /\ loaded # NoFile
    /\ resumeOnDisk = loaded
(***************************************************************************)
(* postProcessFiles on its own: the staged tree ("pkg") of one package is  *)
(* post-processed.  Kinds "elf" and "stripped" are regular files holding   *)
(* an ELF object with and without its symbols.                             *)
(***************************************************************************)
BinFile == <<"b">>
ObjFile == <<"o", ".", "o">>
LaFile == <<"x", ".", "l", "a">>
AFile == <<"y", ".", "a">>
LaLink == <<"z", ".", "l", "a">>
ADir == <<"d", ".", "a">>

TreePool ==
    { <<BinFile, "elf">>, <<ObjFile, "elf">>, <<LaFile, "plain">>, <<AFile, "elf">>,
      <<LaLink, "link">>, <<ADir, "dir">> }

PostTrees == { [p \in { <<"pkg", e[1]>> : e \in S } |->
                   (CHOOSE e \in S : e[1] = p[2])[2]] : S \in SUBSET TreePool }

\* fs::is_regular_file(fs::symlink_status(p))
IsRegularFile(f, n) == f[<<"pkg", n>>] \in {"plain", "archive", "elf", "stripped"}

\* fs::path::extension of a file name
Extension(n) ==
    LET dot == FindLastOf(n, ".")
    IN  IF dot <= 1 THEN <<>> ELSE SubSeq(n, dot, Len(n))

\* the files find hands to strip: -type f ! -name '*.o'
StripCandidates(f) ==
    { p[2] : p \in { q \in DOMAIN f : q[1] = "pkg" /\ IsRegularFile(f, q[2])
                                       /\ Extension(q[2]) # <<".", "o">> } }

\* the files the two removal passes visit
RemovalCandidates(f) ==
    { p[2] : p \in { q \in DOMAIN f : q[1] = "pkg" /\ IsRegularFile(f, q[2])
                                       /\ Extension(q[2]) \in {<<".", "l", "a">>, <<".", "a">>} } }

\* what the strip tool does: it is absent, it exits zero, or it exits non-zero
\* (one file that is no ELF object is enough for that)
StripOutcomes(f) ==
    {"absent", "nonzero"} \cup
    (IF \A n \in StripCandidates(f) : f[<<"pkg", n>>] \in {"elf", "stripped"}
     THEN {"ok"} ELSE {})

\* mutant: a failing strip command fails the step
postProcessFiles_FailsOnStrip(f, nostrip, strip, done, kept) ==
    [ok |-> strip # "nonzero", fs |-> f]

\* postProcessFiles: strip has stripped the files of done, the removals of kept failed
postProcessFiles(f, nostrip, strip, done, kept) ==
    IF nostrip THEN [ok |-> TRUE, fs |-> f]
    ELSE LET stripped == [p \in DOMAIN f |->
                             IF strip # "absent" /\ p[1] = "pkg" /\ p[2] \in done
                                /\ f[p] = "elf"
                             THEN "stripped" ELSE f[p]]
         IN  [ok |-> TRUE,
              fs |-> WithoutEntries(stripped,
                         { <<"pkg", n>> : n \in RemovalCandidates(f) \ kept })]

\* the call of postProcessFiles in the package loop
PostProcessFiles ==
    /\ pc = "post"
    /\ \E strip \in StripOutcomes(fsys) :
       \E done \in (IF strip = "ok" THEN {StripCandidates(fsys)}
                    ELSE SUBSET StripCandidates(fsys)) :
       \E kept \in SUBSET RemovalCandidates(fsys) :
          LET post == postProcessFiles(fsys, noStripping, strip, done, kept)
          IN  /\ fsys' = post.fs
              /\ IF post.ok
                 THEN /\ pc' = "package"
                      /\ trace' = Append(trace, Step("post", pkgIdx))
                      /\ UNCHANGED result
                 ELSE /\ Fail
                      /\ trace' = trace \o <<Step("post", pkgIdx), Step("post_failed", pkgIdx)>>
    /\ UNCHANGED <<parseVars, recipe, prev, clean, noStripping, cwdIsSb, resumeOnDisk, staged,
                   archives, skipping, currentState, srcIdx, intermediatePaths, pkgIdx,
                   hookTodo, netOps, unpacked, loaded, executed, runNo>>

InitPost ==
    /\ recipe = FetchRecipe(<<>>)
    /\ clean = FALSE
    /\ noStripping \in BOOLEAN
    /\ cwdIsSb = TRUE
    /\ resumeOnDisk = NoFile
    /\ fsys \in PostTrees
    /\ staged = <<>>
    /\ archives = <<>>
    /\ pc = "post"
    /\ skipping = FALSE
    /\ currentState = Marker("", 0)
    /\ srcIdx = 1
    /\ intermediatePaths = <<>>
    /\ pkgIdx = 1
    /\ hookTodo = {}
    /\ trace = <<Step("stage", 1), Step("assemble", 1)>>
    /\ netOps = <<>>
    /\ unpacked = <<>>
    /\ loaded = NoFile
    /\ executed = <<>>
    /\ result = "running"
    /\ runNo = 1
    /\ prev = [result |-> "none", paths |-> <<>>, net |-> <<>>]
    /\ file = <<>>
    /\ ps = NotParsing

NextPost == PostProcessFiles

SpecPost == InitPost /\ [][NextPost]_vars

\* C31: whatever the strip lookup, the strip command and the removals of .la and .a
\* files come to, the post-process step succeeds and the package goes on to
\* metadata and archival; with --nostrip nothing is stripped and nothing removed
C31_PostProcessNeverFatal ==
    /\ [][pc = "post" => /\ pc' = "package"
                         /\ result' = "running"
                         /\ noStripping => fsys' = fsys]_vars
    /\ [](pc # "post" => trace[Len(trace)] = Step("post", 1))

\* strip exited non-zero and left the binary as it was, the removal of x.la failed,
\* y.a was removed: the package is on its way to archival
C31_Witness ==
    /\ pc = "package"
    /\ ~noStripping
    /\ Exists(fsys, "pkg", BinFile) /\ fsys[<<"pkg", BinFile>>] = "elf"
    /\ Exists(fsys, "pkg", LaFile)
    /\ ~Exists(fsys, "pkg", AFile)
    /\ Exists(fsys, "pkg", LaLink)
    /\ result = "running"
\* the current run failed before its first global phase: the recipe could not be
\* parsed, declares no package name, or a source was not resolved
EarlyFailure ==
    /\ RunEnded /\ result = "failed"
    /\ \/ InTrace(Step("unreadable", 0))
       \/ (ParseSucceeded /\ recipe.package_names = <<>>)
       \/ \E k \in 1..Len(recipe.sources) : InTrace(Step("fetch_failed", k))

\* the run has not reached its first global phase
BeforePhases == pc \in {"idle", "fetch"}

\* C32: a run that fails while parsing, for want of a package name or during source
\* resolution neither writes nor deletes the resume marker: a marker present before
\* the run is there with the same phase afterwards, and the following run loads it
\* and resumes from that phase
C32_EarlyFailureKeepsMarker ==
    /\ [](EarlyFailure => resumeOnDisk = loaded)
    /\ [][(BeforePhases /\ pc' \in {"idle", "fetch"}) => resumeOnDisk' = resumeOnDisk]_vars
    /\ [][(EarlyFailure /\ StartRun) =>
             /\ loaded' = loaded
             /\ skipping' = (loaded # NoFile)
             /\ loaded # NoFile => currentState' = loaded]_vars

\* with the marker {compile, 0} on disk a run failed on a source, as every run of
\* this recipe does; the next run loaded the same marker, set out to resume from
\* compile, failed on the source again, and the marker is still there
C32_Witness ==
    /\ runNo = 2
    /\ EarlyFailure
    /\ InTrace(Step("fetch", 1)) /\ InTrace(Step("fetch_failed", 2))
    /\ loaded = Marker("compile", 0)
    /\ currentState = Marker("compile", 0) /\ skipping
    /\ resumeOnDisk = Marker("compile", 0)
\* the run found a resume file whose phase token is none of prepare, compile, verify
LoadedNonGlobal == runNo > 0 /\ loaded # NoFile /\ loaded.phase \notin GlobalPhases

Declarations(st) ==
    <<st.package_names, st.package_descriptions, st.package_version, st.description,
      st.dependencies, st.build_dependencies, st.clashes, st.gives,
      st.optional_dependencies, st.subpackageDependencies, st.sources, st.symlinkPairs,
      st.customFunctions>>

\* the first phase body that is open, by its position in Captures
FirstOpen(st) ==
    CHOOSE k \in 2..Len(Captures) : st[Captures[k]] /\ \A j \in 2..(k - 1) : ~st[Captures[j]]

\* C34: while a phase body is open a line never changes package_names,
\* package_descriptions, package_version, description, a dependency array, sources,
\* symlinkPairs or customFunctions, whatever its shape, and a line that is not the
\* closing "}" is appended to the open body
C34_AsStated ==
    [][(ParseStep /\ InBlock(ps)) =>
          /\ Declarations(ps') = Declarations(ps)
          /\ (~ReadsBrace /\ ~ReadsBlankOrComment) =>
                 ps'[Streams[FirstOpen(ps)]]
                     = Append(ps[Streams[FirstOpen(ps)]], file[ps.pos])]_vars

\* a command line that has the shape of no declaration is appended to the open
\* body and changes no declaration
C34_CommandLines ==
    [][(ParseStep /\ InBlock(ps) /\ ~ps.in_custom /\ file[ps.pos] = <<Blank, "make">>) =>
          /\ Declarations(ps') = Declarations(ps)
          /\ ps'[Streams[FirstOpen(ps)]]
                 = Append(ps[Streams[FirstOpen(ps)]], file[ps.pos])]_vars
\* the first run has ended in success, with --clean, started from the recipe directory
CleanedFromRecipeDir == runNo = 1 /\ RunEnded /\ result = "ok" /\ clean /\ cwdIsSb

\* the local-path sources of the recipe that were in the recipe directory before
\* the first run
OriginalLocalSources ==
    { recipe.sources[k] : k \in { j \in 1..Len(recipe.sources) :
          IsLocal(recipe.sources[j]) /\ Exists(RecipeDir, "sb", recipe.sources[j]) } }

\* C35: after a successful run with --clean started from the recipe directory, every
\* local-path source file that was in the recipe directory before the run is still
\* there
C35_AsStated ==
    CleanedFromRecipeDir => \A src \in OriginalLocalSources : Exists(fsys, "sb", src)

\* the cleanup pass removes every local-path source from the recipe directory
C35_LocalSourcesRemoved ==
    CleanedFromRecipeDir => \A src \in OriginalLocalSources : ~Exists(fsys, "sb", src)
\* the declared packages whose staged tree holds a copy of filename
StagedFor(filename) ==
    { i \in 1..Len(recipe.package_names) :
          /\ recipe.package_names[i] \in DOMAIN staged
          /\ RoutedInto(staged[recipe.package_names[i]], filename) }

\* no declared name followed by "-" starts another declared name
DisjointPrefixes ==
    \A i, j \in 1..Len(recipe.package_names) :
        i # j => ~StartsWithNoCase(recipe.package_names[j],
                                   recipe.package_names[i] \o <<"-">>)

\* C36: in a multi-package build a hook file is staged into the tree of at most one
\* declared package; with packages foo and foo-bar the file foo-bar-pre.hook is
\* staged for foo-bar only
C36_AsStated ==
    Len(recipe.package_names) > 1 =>
        \A filename \in HookCandidates : Cardinality(StagedFor(filename)) <= 1

\* a hook file goes to one package at most when no package name followed by "-" is
\* the beginning of another
C36_DisjointPrefixes ==
    (Len(recipe.package_names) > 1 /\ DisjointPrefixes) =>
        \A filename \in HookCandidates : Cardinality(StagedFor(filename)) <= 1
\* C37: when the input ends, the lines accumulated for prepare, compile and verify
\* are stored as their bodies, closed or not, whereas an open assemble() body, an
\* open assemble_<pkg>() body and an open custom function are dropped:
\* generic_assemble_function, assemble_functions and customFunctions stay as they
\* were; parsing succeeds
C37_EndOfInputInBlock ==
    [][ParseReturn =>
          /\ ps'.done /\ ps'.ok
          /\ ps'.prepare_function = ps.prepare_stream
          /\ ps'.compile_function = ps.compile_stream
          /\ ps'.verify_function = ps.verify_stream
          /\ ps'.generic_assemble_function = ps.generic_assemble_function
          /\ ps'.assemble_functions = ps.assemble_functions
          /\ ps'.customFunctions = ps.customFunctions
          /\ Declarations(ps') = Declarations(ps)]_vars

\* the input ended inside prepare(), with assemble() opened in it: the line read for
\* prepare is its body, and there is no assemble body
C37_Witness ==
    /\ file = << <<"prepare", "(", ")", Blank, "{">>, <<Blank, "make">>,
                 <<"assemble", "(", ")", Blank, "{">> >>
    /\ ps.done /\ ps.ok
    /\ ps.in_prepare /\ ps.in_generic_assemble
    /\ ps.prepare_function = << <<Blank, "make">> >>
    /\ ps.generic_assemble_function = <<>>

\* the input ended inside assemble(): the line read for it is dropped
C37_OpenAssembleDropped ==
    /\ file = << <<"assemble", "(", ")", Blank, "{">>, <<Blank, "make">> >>
    /\ ps.done /\ ps.ok
    /\ ps.generic_assemble_stream = << <<Blank, "make">> >>
    /\ ps.generic_assemble_function = <<>>

=============================================================================
